---- MODULE Spec2Model ----
(***************************************************************************)
(* A model of the USSP-GCMs teaching repository: the shell script that     *)
(* fetches the data archive (download_data.sh) and the three notebooks     *)
(* (1-DataAnalysis, the radiation budget notebook, the paleoclimate        *)
(* notebook).  Each notebook is a kernel namespace driven by its code      *)
(* cells; each script line is one step of the shell.                       *)
(***************************************************************************)
EXTENDS Integers, Sequences, FiniteSets, TLC

(***************************************************************************)
(* Bounds of the model.                                                    *)
(***************************************************************************)
\* how many times the user runs the script in the same directory
MaxRuns == 2
\* how many distinct versions of the archive the server may hold over time
MaxVersions == 2
\* the sample data sets a file may hold are numbered 0..MaxSample
MaxSample == 2
\* sample values range over 0..ValMod-1
ValMod == 5
\* the yearly files hold the last NYears years of the historical run
NYears == 7

VARIABLES
  shpc,        \* the line of download_data.sh the shell is at
  cwd,         \* the working directory: file name -> content
  unpacked,    \* the content of the unpacked data tree ("none" before any unpack)
  lastrc,      \* $? : the status of the last command the shell ran
  exitCode,    \* the status the script exited with ("none" while it runs)
  runs,        \* how many runs of the script have started
  wgetRc,      \* this run: what wget returned ("none" before it ran)
  tarRc,       \* this run: what tar returned ("none" before it ran)
  requested,   \* this run: the URL wget was asked for (<<>> before it ran)
  saved,       \* this run: the file wget wrote ("none" when it wrote nothing)
  tarArg,      \* this run: the file tar was asked to unpack ("none" before it ran)
  calls        \* this run: the external commands invoked so far, in order

shvars == <<shpc, cwd, unpacked, lastrc, exitCode, runs, wgetRc, tarRc,
            requested, saved, tarArg, calls>>

(***************************************************************************)
(* The notebook kernel.                                                    *)
(***************************************************************************)
VARIABLES
  nb,          \* the notebook open in the kernel ("none" when no kernel runs)
  cell,        \* the number of the next code cell to run (1 = the first)
  ns,          \* the kernel's namespace: name -> value
  disk,        \* the data files under ussp/: file -> dataset content
  evals,       \* the computations executed so far: [cell, expr], in order
  outs         \* what the cells displayed so far (figures, values): [cell, panels]

kvars == <<nb, cell, ns, disk, evals, outs>>

vars == <<shvars, kvars>>

(***************************************************************************)
(* -----------------------------  numbers  ------------------------------- *)
(* A floating-point value is modelled as the exact rational n/d it stands  *)
(* for (d > 0, lowest terms); NaN is 0/0.                                  *)
(***************************************************************************)
Abs(x) == IF x < 0 THEN -x ELSE x

RECURSIVE GCD(_, _)
GCD(a, b) == IF b = 0 THEN a ELSE GCD(b, a % b)

NaN == [n |-> 0, d |-> 0]
IsNaN(x) == x.d = 0

Rat(n, d) ==
  IF d = 0 THEN NaN
  ELSE LET g == GCD(Abs(n), Abs(d))
           s == IF d < 0 THEN -1 ELSE 1
       IN [n |-> (s * n) \div g, d |-> (s * d) \div g]

Num(i) == Rat(i, 1)
RAdd(x, y) == IF IsNaN(x) \/ IsNaN(y) THEN NaN ELSE Rat(x.n * y.d + y.n * x.d, x.d * y.d)
RSub(x, y) == IF IsNaN(x) \/ IsNaN(y) THEN NaN ELSE Rat(x.n * y.d - y.n * x.d, x.d * y.d)
RMul(x, y) == IF IsNaN(x) \/ IsNaN(y) THEN NaN ELSE Rat(x.n * y.n, x.d * y.d)
RDiv(x, y) == IF IsNaN(x) \/ IsNaN(y) THEN NaN ELSE Rat(x.n * y.d, x.d * y.n)

\* The sum of f over the points of S.
RECURSIVE RSum(_, _)
RSum(f, S) ==
  IF S = {} THEN Num(0)
  ELSE LET p == CHOOSE q \in S : TRUE IN RAdd(f[p], RSum(f, S \ {p}))

(***************************************************************************)
(* ---------------------------  labelled arrays  ------------------------- *)
(* An xarray.DataArray: named dimensions, one coordinate axis (a sequence  *)
(* of labels) per dimension, and a value per point (a tuple of labels in   *)
(* the order of dims).  lazy: the values are a dask graph not yet run;     *)
(* graph: the expression still to be computed for the values (Mem when     *)
(* they are held in memory); ran: the expressions executed while the       *)
(* current statement built the value.                                      *)
(***************************************************************************)
Range(s) == {s[i] : i \in DOMAIN s}

RECURSIVE Points(_)
Points(coords) ==
  IF coords = <<>> THEN {<<>>}
  ELSE {<<x>> \o p : x \in Range(Head(coords)), p \in Points(Tail(coords))}

\* An expression of the computation graph.
E(op, arg, kids) == [op |-> op, arg |-> arg, kids |-> kids]
\* Values held in memory: nothing is left to compute.
Mem == E("mem", "", <<>>)
\* A variable of a file on disk.
FileLeaf(v) == E("file", v, <<>>)
IsLeaf(g) == g.kids = <<>>

\* An operation on numpy values runs where it is written and leaves its
\* result in memory; on dask values it only extends the graph.
Exec(r) ==
  IF r.lazy THEN r
  ELSE [r EXCEPT !.ran = Append(r.ran, r.graph), !.graph = Mem]

DimIndex(a, d) == CHOOSE i \in DOMAIN a.dims : a.dims[i] = d
Axis(a, d) == a.coords[DimIndex(a, d)]
Pos(s, x) == CHOOSE i \in DOMAIN s : s[i] = x
Pick(s, idxs) == [k \in 1..Len(idxs) |-> s[idxs[k]]]
\* The positions of the dimensions of a that are not in D.
KeepIdx(a, D) == SelectSeq([i \in 1..Len(a.dims) |-> i], LAMBDA i : a.dims[i] \notin D)
\* The labels of s that t holds too, in the order of s (an inner join).
Common(s, t) == SelectSeq(s, LAMBDA x : x \in Range(t))

\* a.mean(dim=D): the mean over the dimensions D, NaN skipped; the mean of
\* no value is NaN.
Mean(a, D, text) ==
  LET idxs == KeepIdx(a, D)
      coords == Pick(a.coords, idxs)
      Fibre(q) == {p \in DOMAIN a.data : Pick(p, idxs) = q /\ ~IsNaN(a.data[p])}
  IN Exec([a EXCEPT !.dims = Pick(a.dims, idxs),
               !.coords = coords,
               !.data = [q \in Points(coords) |->
                          IF Fibre(q) = {} THEN NaN
                          ELSE RDiv(RSum(a.data, Fibre(q)), Num(Cardinality(Fibre(q))))],
               !.graph = E("mean", text, <<a.graph>>)])

\* a.sel(d=slice(lo, hi)) on an increasing axis: the labels lo <= x <= hi.
SelSlice(a, d, lo, hi, text) ==
  LET i == DimIndex(a, d)
      coords == [a.coords EXCEPT ![i] = SelectSeq(a.coords[i], LAMBDA x : lo <= x /\ x <= hi)]
  IN Exec([a EXCEPT !.coords = coords,
               !.data = [p \in Points(coords) |-> a.data[p]],
               !.graph = E("sel", text, <<a.graph>>)])

\* a[-1, ...]: the last position of the first dimension.
IselLast(a) ==
  LET last == a.coords[1][Len(a.coords[1])]
      coords == Tail(a.coords)
  IN Exec([a EXCEPT !.dims = Tail(a.dims),
               !.coords = coords,
               !.data = [p \in Points(coords) |-> a.data[<<last>> \o p]],
               !.graph = E("isel", "-1", <<a.graph>>)])

\* a - b of two arrays over the same dimensions: the labels are joined
\* (inner join), the result keeps the name only when both agree.
Minus(a, b) ==
  LET coords == [i \in DOMAIN a.coords |-> Common(a.coords[i], b.coords[i])]
  IN Exec([kind |-> "DataArray",
      name |-> IF a.name = b.name THEN a.name ELSE "",
      dims |-> a.dims,
      coords |-> coords,
      data |-> [p \in Points(coords) |-> RSub(a.data[p], b.data[p])],
      lazy |-> a.lazy \/ b.lazy,
      graph |-> E("sub", "", <<a.graph, b.graph>>),
      ran |-> a.ran \o b.ran])

\* a * b of two arrays over the same dimensions.
Times(a, b) ==
  LET coords == [i \in DOMAIN a.coords |-> Common(a.coords[i], b.coords[i])]
  IN Exec([kind |-> "DataArray",
      name |-> IF a.name = b.name THEN a.name ELSE "",
      dims |-> a.dims,
      coords |-> coords,
      data |-> [p \in Points(coords) |-> RMul(a.data[p], b.data[p])],
      lazy |-> a.lazy \/ b.lazy,
      graph |-> E("mul", "", <<a.graph, b.graph>>),
      ran |-> a.ran \o b.ran])

\* a * x for a number x.
Scale(a, x, text) ==
  Exec([a EXCEPT !.data = [p \in DOMAIN a.data |-> RMul(a.data[p], x)],
                 !.graph = E("scale", text, <<a.graph>>)])

\* a - x for a 0-dimensional array x (broadcast over a).
MinusScalar(a, x) ==
  Exec([a EXCEPT !.data = [p \in DOMAIN a.data |-> RSub(a.data[p], x.data[<<>>])],
                 !.name = IF a.name = x.name THEN a.name ELSE "",
                 !.lazy = a.lazy \/ x.lazy,
                 !.ran = a.ran \o x.ran,
                 !.graph = E("sub", "", <<a.graph, x.graph>>)])

\* np.cumsum(a) of a one-dimensional array: the running sum along its axis,
\* in axis order, NaN counted as 0.
Cumsum(a) ==
  LET ax == a.coords[1]
      val(i) == IF IsNaN(a.data[<<ax[i]>>]) THEN Num(0) ELSE a.data[<<ax[i]>>]
      run[k \in 0..Len(ax)] == IF k = 0 THEN Num(0) ELSE RAdd(run[k - 1], val(k))
  IN Exec([a EXCEPT !.data = [p \in DOMAIN a.data |-> run[Pos(ax, p[1])]],
               !.graph = E("cumsum", "", <<a.graph>>)])

\* a.compute(), and what a plot or .values does to see the values: a pending
\* graph is run and the values are held in memory.
Compute(a) ==
  IF ~a.lazy THEN a
  ELSE [a EXCEPT !.lazy = FALSE, !.graph = Mem,
                 !.ran = IF IsLeaf(a.graph) THEN a.ran ELSE Append(a.ran, a.graph)]

\* A calendar date as the number yyyymmdd (ordered as dates are).
Date(y, m, d) == y * 10000 + m * 100 + d
\* The calendar year and month of a time stamp.
Year(t) == t \div 10000
Month(t) == (t \div 100) % 100

\* a.sel(time=(a.time.dt.month == m)): the time steps of calendar month m.
SelMonth(a, m, text) ==
  LET i == DimIndex(a, "time")
      coords == [a.coords EXCEPT ![i] = SelectSeq(a.coords[i], LAMBDA t : Month(t) = m)]
  IN Exec([a EXCEPT !.coords = coords,
                    !.data = [p \in Points(coords) |-> a.data[p]],
                    !.graph = E("sel", text, <<a.graph>>)])

\* a.sel(d=[labels]): the named labels of dimension d, in the order given.
SelLabels(a, d, labels, text) ==
  LET i == DimIndex(a, d)
      coords == [a.coords EXCEPT ![i] = labels]
  IN Exec([a EXCEPT !.coords = coords,
                    !.data = [p \in Points(coords) |-> a.data[p]],
                    !.graph = E("sel", text, <<a.graph>>)])

\* a.sel(d=label): the one label of dimension d; the dimension is dropped.
SelLabel(a, d, label, text) ==
  LET i == DimIndex(a, d)
      idxs == KeepIdx(a, {d})
      coords == Pick(a.coords, idxs)
      Full(q) == [k \in 1..Len(a.dims) |->
                    IF k < i THEN q[k] ELSE IF k = i THEN label ELSE q[k - 1]]
  IN Exec([a EXCEPT !.dims = Pick(a.dims, idxs),
                    !.coords = coords,
                    !.data = [q \in Points(coords) |-> a.data[Full(q)]],
                    !.graph = E("sel", text, <<a.graph>>)])

\* a.resample(time=freq).mean() for a yearly frequency: one value per
\* calendar year from the first to the last year of the axis, the mean of
\* that year's time steps (NaN skipped; NaN for a year with none), labelled
\* with the year's last day for 'Y' and with its first day for 'YS'.
YearLabel(y, freq) == IF freq = "YS" THEN Date(y, 1, 1) ELSE Date(y, 12, 31)
ResampleMean(a, freq) ==
  LET ax == a.coords[1]
      first == Year(ax[1])
      n == IF ax = <<>> THEN 0 ELSE Year(ax[Len(ax)]) - first + 1
      labels == [k \in 1..n |-> YearLabel(first + k - 1, freq)]
      coords == [a.coords EXCEPT ![1] = labels]
      Bin(q) == {p \in DOMAIN a.data :
                   Year(p[1]) = Year(q[1]) /\ Tail(p) = Tail(q) /\ ~IsNaN(a.data[p])}
  IN Exec([a EXCEPT !.coords = coords,
                    !.data = [q \in Points(coords) |->
                               IF Bin(q) = {} THEN NaN
                               ELSE RDiv(RSum(a.data, Bin(q)), Num(Cardinality(Bin(q))))],
                    !.graph = E("resample_mean", freq, <<a.graph>>)])

\* a.std(dim=D): the standard deviation over the dimensions D, NaN skipped.
\* The value kept is its square (the variance): the model has no roots.
StdSquared(a, D, text) ==
  LET idxs == KeepIdx(a, D)
      coords == Pick(a.coords, idxs)
      Fibre(q) == {p \in DOMAIN a.data : Pick(p, idxs) = q /\ ~IsNaN(a.data[p])}
      mean(q) == RDiv(RSum(a.data, Fibre(q)), Num(Cardinality(Fibre(q))))
      sq(q) == [p \in Fibre(q) |->
                  RMul(RSub(a.data[p], mean(q)), RSub(a.data[p], mean(q)))]
  IN Exec([a EXCEPT !.dims = Pick(a.dims, idxs),
                    !.coords = coords,
                    !.data = [q \in Points(coords) |->
                               IF Fibre(q) = {} THEN NaN
                               ELSE RDiv(RSum(sq(q), Fibre(q)), Num(Cardinality(Fibre(q))))],
                    !.graph = E("std", text, <<a.graph>>)])

\* The latitude coordinate of a, as an array (a.lat): always in memory.
LatOf(a) ==
  LET ax == Axis(a, "lat")
  IN [kind |-> "DataArray", name |-> "lat", dims |-> <<"lat">>, coords |-> <<ax>>,
      data |-> [p \in Points(<<ax>>) |-> Num(p[1])], lazy |-> FALSE, graph |-> Mem,
      ran |-> <<>>]

\* cos of a latitude given in tenths of a degree, in thousandths.
CosMilli(lat) ==
  CASE Abs(lat) = 900 -> 0
    [] Abs(lat) = 895 -> 9
    [] Abs(lat) = 425 -> 737
    [] Abs(lat) = 5 -> 1000
    [] Abs(lat) = 0 -> 1000

\* np.cos(np.deg2rad(x)) of a coordinate array of latitudes: computed at once.
CosDeg(x) ==
  Exec([x EXCEPT !.data = [p \in DOMAIN x.data |-> Rat(CosMilli(x.data[p].n), 1000)],
                 !.graph = E("cos(deg2rad)", "", <<x.graph>>)])

\* a.weighted(w).mean(dim=D) for weights w along lat: the weights are joined
\* to a by latitude label (inner join, as xr.dot does), NaN values are left
\* out with their weight, and a zero sum of weights gives NaN.
WeightedMean(a, w, D, text) ==
  LET idxs == KeepIdx(a, D)
      coords == Pick(a.coords, idxs)
      li == DimIndex(a, "lat")
      lats == Range(Common(a.coords[li], w.coords[1]))
      Fibre(q) == {p \in DOMAIN a.data :
                     Pick(p, idxs) = q /\ p[li] \in lats /\ ~IsNaN(a.data[p])}
      wsum(q) == RSum([p \in Fibre(q) |-> RMul(a.data[p], w.data[<<p[li]>>])], Fibre(q))
      sumw(q) == RSum([p \in Fibre(q) |-> w.data[<<p[li]>>]], Fibre(q))
  IN Exec([a EXCEPT !.dims = Pick(a.dims, idxs),
               !.coords = coords,
               !.data = [q \in Points(coords) |->
                          IF sumw(q).n = 0 THEN NaN ELSE RDiv(wsum(q), sumw(q))],
               !.lazy = a.lazy \/ w.lazy,
               !.graph = E("weighted_mean", text, <<a.graph, w.graph>>),
               !.ran = a.ran \o w.ran])

\* The computations a cell executed to build v, stamped with the cell.
Stamp(c, v) == [i \in 1..Len(v.ran) |-> [cell |-> c, expr |-> v.ran[i]]]
\* What a name holds after `name = v`.
Held(v) == [v EXCEPT !.ran = <<>>]

\* An optional argument: None, or a value.
None == <<>>
Some(x) == <<x>>

\* a.squeeze(): the dimensions of length 1 dropped.
Squeeze(a) ==
  LET idxs == SelectSeq([i \in 1..Len(a.dims) |-> i], LAMBDA i : Len(a.coords[i]) # 1)
      coords == Pick(a.coords, idxs)
      Full(q) == CHOOSE p \in DOMAIN a.data : Pick(p, idxs) = q
  IN [a EXCEPT !.dims = Pick(a.dims, idxs),
               !.coords = coords,
               !.data = [q \in Points(coords) |-> a.data[Full(q)]]]

\* What a plot shows of v: its values, squeezed.
Pixels(v) ==
  LET sq == Squeeze(v) IN [dims |-> sq.dims, coords |-> sq.coords, data |-> sq.data]
Panel(v, title, vmin, vmax, cmap) ==
  [shows |-> Pixels(v), title |-> title, vmin |-> vmin, vmax |-> vmax, cmap |-> cmap]
Fig(c, panels) == [cell |-> c, panels |-> panels]

(***************************************************************************)
(* -----------------------------  data files  ---------------------------- *)
(***************************************************************************)
\* The value of variable number v at the grid position idx (a tuple of
\* positions along the dimensions), in sample data set number k.
Gen(k, v, idx) ==
  LET ti == idx[1]
      i == idx[Len(idx) - 1]
      j == idx[Len(idx)]
      l == IF Len(idx) > 3 THEN idx[2] ELSE 0
  IN ((k + 1) * ti * ti + (v + k) * (i * i + j + 1) + v * ti * (i + 1) + 3 * i * j
      + l * (i + v)) % ValMod

\* Variable number v of a file, called name, on the grid coords (one axis
\* per dimension of dims), filled with sample k.
Field(k, v, name, dims, coords) ==
  [kind |-> "DataArray", name |-> name,
   dims |-> dims,
   coords |-> coords,
   data |-> [p \in Points(coords) |->
              Num(Gen(k, v, [d \in 1..Len(coords) |-> Pos(coords[d], p[d])]))],
   lazy |-> FALSE,
   graph |-> FileLeaf(name),
   ran |-> <<>>]

\* The content of a file: the variables names (a sequence) on the grid
\* time x lat x lon, filled with sample k.
FileContent(k, names, time, lat, lon) ==
  [v \in Range(names) |->
     Field(k, Pos(names, v), v, <<"time", "lat", "lon">>, <<time, lat, lon>>)]

\* xr.open_dataset(file): the variables are read from disk on demand and
\* computed on as numpy arrays.
open_dataset(file) ==
  [kind |-> "Dataset", vars |-> disk[file]]

\* xr.open_mfdataset(glob): the variables are dask arrays.
open_mfdataset(glob) ==
  [kind |-> "Dataset",
   vars |-> [v \in DOMAIN disk[glob] |-> [disk[glob][v] EXCEPT !.lazy = TRUE]]]

\* ns with name bound to value
Assign(names, name, value) ==
  [n \in DOMAIN names \cup {name} |-> IF n = name THEN value ELSE names[n]]

Module(name) == [kind |-> "module", name |-> name]

(***************************************************************************)
(* ---------------------------  download_data.sh  ------------------------ *)
(***************************************************************************)

\* The archive the README names (README, "Home installation").
ReadmeURL == <<"http:", "wilma.to.isac.cnr.it", "diss", "paolo", "ussp", "ussp24.tar.gz">>
\* The URL on the wget line of the script.
ScriptURL == <<"http:", "wilma.to.isac.cnr.it", "diss", "paolo", "ussp", "ussp_data.tar.gz">>
\* The file name on the tar line of the script.
TarFile == "ussp_data.tar.gz"

\* The last path component of a URL: the name wget saves under.
Basename(url) == url[Len(url)]

\* A file name is <<base, n>>: base itself for n = 0, base.n otherwise
\* (wget's numbering of a download whose name is taken).
FileName(base, n) == <<base, n>>

\* The name wget writes to: the first of base, base.1, base.2, ... not in dir.
RECURSIVE FreeName(_, _, _)
FreeName(dir, base, n) ==
  IF FileName(base, n) \in DOMAIN dir THEN FreeName(dir, base, n + 1)
  ELSE FileName(base, n)

\* Archive contents: a complete archive of version v, or a truncated download.
Archive(v) == [kind |-> "archive", version |-> v]
Partial == [kind |-> "partial", version |-> 0]
Versions == 1..MaxVersions

\* wget's exit statuses: 0 success, 4 network failure, 8 server error response.
WgetFailures == {4, 8}

\* dir with file f holding content c
WriteFile(dir, f, c) == [g \in DOMAIN dir \cup {f} |-> IF g = f THEN c ELSE dir[g]]

\* No run of the script has started.
ShellIdle ==
  /\ shpc = "idle"
  /\ cwd = <<>>
  /\ unpacked = "none"
  /\ lastrc = 0
  /\ exitCode = "none"
  /\ runs = 0
  /\ wgetRc = "none"
  /\ tarRc = "none"
  /\ requested = <<>>
  /\ saved = "none"
  /\ tarArg = "none"
  /\ calls = <<>>

\* The user types `bash download_data.sh` (README line 20).
StartRun ==
  /\ shpc \in {"idle", "exited"}
  /\ runs < MaxRuns
  /\ runs' = runs + 1
  /\ shpc' = "echo_download"
  /\ exitCode' = "none"
  /\ wgetRc' = "none"
  /\ tarRc' = "none"
  /\ requested' = <<>>
  /\ saved' = "none"
  /\ tarArg' = "none"
  /\ calls' = <<>>
  /\ lastrc' = 0
  /\ UNCHANGED <<cwd, unpacked>>
  /\ UNCHANGED kvars

\* line 3: echo "Download the USSP data"
EchoDownload ==
  /\ shpc = "echo_download"
  /\ lastrc' = 0
  /\ shpc' = "wget"
  /\ UNCHANGED <<cwd, unpacked, exitCode, runs, wgetRc, tarRc, requested, saved,
                 tarArg, calls>>
  /\ UNCHANGED kvars

\* A script that stops at a failed download (as under `set -e`): the slip
\* the absence of any test of $? rules out.
WgetStepErrexit(rc, v, leavesPartial) ==
  LET name == FreeName(cwd, Basename(ScriptURL), 0) IN
  /\ requested' = ScriptURL
  /\ calls' = Append(calls, "wget")
  /\ wgetRc' = rc
  /\ lastrc' = rc
  /\ IF rc = 0
       THEN cwd' = WriteFile(cwd, name, Archive(v)) /\ saved' = name
     ELSE IF rc = 4 /\ leavesPartial
       THEN cwd' = WriteFile(cwd, name, Partial) /\ saved' = name
     ELSE cwd' = cwd /\ saved' = "none"
  /\ shpc' = IF rc = 0 THEN "echo_unpack" ELSE "eof"

\* What the wget line leaves behind, given the tool's outcome rc and, on
\* success, the version v the server holds.
WgetStep(rc, v, leavesPartial) ==
  LET name == FreeName(cwd, Basename(ScriptURL), 0) IN
  /\ requested' = ScriptURL
  /\ calls' = Append(calls, "wget")
  /\ wgetRc' = rc
  /\ lastrc' = rc
  /\ IF rc = 0
       THEN cwd' = WriteFile(cwd, name, Archive(v)) /\ saved' = name
     ELSE IF rc = 4 /\ leavesPartial
       THEN cwd' = WriteFile(cwd, name, Partial) /\ saved' = name
     ELSE cwd' = cwd /\ saved' = "none"
  \* no `set -e`, no test of $?: the shell goes on to the next line
  /\ shpc' = "echo_unpack"

\* line 4: wget http://wilma.to.isac.cnr.it/diss/paolo/ussp/ussp_data.tar.gz
Wget ==
  /\ shpc = "wget"
  /\ \E rc \in {0} \cup WgetFailures, v \in Versions, p \in BOOLEAN :
       WgetStep(rc, v, p)
  /\ UNCHANGED <<unpacked, exitCode, runs, tarRc, tarArg>>
  /\ UNCHANGED kvars

\* line 6: echo "Unpack the USSP data"
EchoUnpack ==
  /\ shpc = "echo_unpack"
  /\ lastrc' = 0
  /\ shpc' = "tar"
  /\ UNCHANGED <<cwd, unpacked, exitCode, runs, wgetRc, tarRc, requested, saved,
                 tarArg, calls>>
  /\ UNCHANGED kvars

\* tar's status on the named file of directory dir: 0 for a complete archive,
\* 2 for a missing or truncated one.
TarStatus(dir, f) ==
  IF f \in DOMAIN dir /\ dir[f].kind = "archive" THEN 0 ELSE 2

\* line 7: tar xvfz ussp_data.tar.gz
Tar ==
  LET f == FileName(TarFile, 0)
      rc == TarStatus(cwd, f) IN
  /\ shpc = "tar"
  /\ tarArg' = f
  /\ calls' = Append(calls, "tar")
  /\ tarRc' = rc
  /\ lastrc' = rc
  /\ unpacked' = IF rc = 0 THEN cwd[f] ELSE unpacked
  /\ shpc' = "eof"
  /\ UNCHANGED <<cwd, exitCode, runs, wgetRc, requested, saved>>
  /\ UNCHANGED kvars

\* The status a script without an exit statement ends with: that of the last
\* command it ran.
ScriptStatus(wrc, trc, last) == last

\* End of file: the script exits.
Exit ==
  /\ shpc = "eof"
  /\ exitCode' = ScriptStatus(wgetRc, tarRc, lastrc)
  /\ shpc' = "exited"
  /\ UNCHANGED <<cwd, unpacked, lastrc, runs, wgetRc, tarRc, requested, saved,
                 tarArg, calls>>
  /\ UNCHANGED kvars

\* No kernel runs while the script does.
KernelIdle ==
  /\ nb = "none"
  /\ cell = 0
  /\ ns = <<>>
  /\ disk = <<>>
  /\ evals = <<>>
  /\ outs = <<>>

ShInit == ShellIdle /\ KernelIdle

ShNext == StartRun \/ EchoDownload \/ Wget \/ EchoUnpack \/ Tar \/ Exit

SpecDownload == ShInit /\ [][ShNext]_vars

(***************************************************************************)
(* Claims about download_data.sh.                                          *)
(***************************************************************************)

\* C1: for every combination of outcomes of wget and tar, the script exits
\* non-zero whenever either tool returned non-zero, and exits zero only when
\* both returned zero.
C1_ExitReflectsBothTools ==
  shpc = "exited" => (exitCode = 0 <=> (wgetRc = 0 /\ tarRc = 0))

\* C2: the script downloads the archive the README names, and the file name
\* it then unpacks is the file name of the archive it downloaded.
C2_DownloadsReadmeArchive ==
  shpc = "exited" =>
    /\ requested = ReadmeURL
    /\ tarArg = FileName(Basename(requested), 0)

\* C13: in one run the script invokes the download exactly once and then the
\* unpack exactly once, in that order, whatever the download returned: the
\* unpack is attempted also after a failed download.
C13_DownloadThenUnpackOnce ==
  /\ calls \in {<<>>, <<"wget">>, <<"wget", "tar">>}
  /\ shpc \in {"eof", "exited"} => calls = <<"wget", "tar">>
  /\ shpc \in {"echo_unpack", "tar"} => calls = <<"wget">>

\* C13 witness: a run ended in which the download failed and the unpack was
\* attempted after it.
C13_Witness ==
  /\ shpc = "exited"
  /\ wgetRc \in WgetFailures
  /\ tarRc \in {0, 2}
  /\ calls = <<"wget", "tar">>

\* C19: whenever the script exits with status zero, the file it unpacked is
\* the file the download of that same run saved, also with a
\* ussp_data.tar.gz left in the directory by an earlier run.
C19_UnpacksOwnDownload ==
  (shpc = "exited" /\ exitCode = 0) =>
    /\ wgetRc = 0
    /\ tarArg = saved
    /\ unpacked = cwd[saved]

\* C20: a second run in the same directory, both downloads having
\* succeeded, leaves the files the first run left: the archive under its
\* one name, and no further copy of it.
C20_SecondRunLeavesSameFiles ==
  (/\ shpc = "exited"
   /\ runs = 2
   /\ wgetRc = 0
   /\ FileName(TarFile, 0) \in DOMAIN cwd
   /\ cwd[FileName(TarFile, 0)].kind = "archive") =>
    DOMAIN cwd = {FileName(TarFile, 0)}

(***************************************************************************)
(* ----------------------  the radiation budget notebook  ---------------- *)
(***************************************************************************)
\* The files the notebook opens.
EceRadFiles == "ussp/r*EC-Earth*.nc"
EceCloudFiles == "ussp/clt*EC-Earth*.nc"
EceHeatFiles == "ussp/h*EC-Earth*.nc"
CeresFile == "ussp/CERES-2020-2022.nc"

\* The regular grid the model data were interpolated to (cell centres, in
\* tenths of a degree), sampled.
GridLat == <<-895, 5, 425, 895>>
GridLon == <<5, 125>>
\* Other latitude axes a file may come on: a coarser grid sharing some
\* cell centres with GridLat, and a grid of whole degrees sharing none.
OtherLats == {<<-895, 5, 895>>, <<-900, 0, 900>>}

\* The last year of the historical run (the files are named 1850-2014).
LastYear == 2014
\* The time axis of the yearly files: one stamp per year, on month-day md.
YearlyTime(md) == [i \in 1..NYears |-> (LastYear - NYears + i) * 10000 + md]
StampDays == {101, 701, 1231}
\* The time axis of the CERES file, named 2020-2022: monthly stamps, sampled.
CeresTime == <<Date(2020, 1, 15), Date(2021, 7, 15), Date(2022, 12, 15)>>

RadInit ==
  /\ ShellIdle
  /\ nb = "radiation"
  /\ cell = 1
  /\ ns = <<>>
  /\ evals = <<>>
  /\ outs = <<>>
  /\ \E k \in 0..MaxSample, md \in StampDays, clat \in {GridLat} \cup OtherLats :
       disk = [f \in {EceRadFiles, EceCloudFiles, EceHeatFiles, CeresFile} |->
                 CASE f = EceRadFiles ->
                        FileContent(k, <<"rsdt", "rlut", "rsut", "rlutcs", "rsutcs">>,
                                    YearlyTime(md), GridLat, GridLon)
                   [] f = EceCloudFiles ->
                        FileContent(k + 1, <<"clt">>, YearlyTime(md), GridLat, GridLon)
                   [] f = EceHeatFiles ->
                        FileContent(k + 2, <<"hfls", "hfss">>, YearlyTime(md), GridLat, GridLon)
                   [] f = CeresFile ->
                        FileContent(k + 3, <<"toa_net_all_mon">>, CeresTime, clat, GridLon)]

\* A cell of the notebook runs: cell c is next, and the one after it becomes
\* next.  No cell writes a file.
RadCell(c) ==
  /\ nb = "radiation"
  /\ cell = c
  /\ cell' = c + 1
  /\ UNCHANGED <<nb, disk>>
  /\ UNCHANGED shvars

\* import xarray as xr; import numpy as np; import matplotlib.pyplot as plt
RadImports ==
  /\ RadCell(1)
  /\ ns' = Assign(Assign(Assign(ns, "xr", Module("xarray")), "np", Module("numpy")),
                  "plt", Module("matplotlib.pyplot"))
  /\ UNCHANGED <<evals, outs>>

\* dataset = xr.open_mfdataset('ussp/r*EC-Earth*.nc', ...); dataset
RadOpenDataset ==
  /\ RadCell(2)
  /\ "xr" \in DOMAIN ns
  /\ ns' = Assign(ns, "dataset", open_mfdataset(EceRadFiles))
  /\ UNCHANGED <<evals, outs>>

\* dataset['rlut'][-1,:,:].plot(vmin=150, vmax=330)
RadPlotLast ==
  /\ RadCell(3)
  /\ "dataset" \in DOMAIN ns
  /\ LET v == Compute(IselLast(ns["dataset"].vars["rlut"])) IN
       /\ evals' = evals \o Stamp(3, v)
       /\ outs' = Append(outs, Fig(3, <<Panel(v, "", Some(150), Some(330), "default")>>))
  /\ UNCHANGED ns

\* The time window slice(from, to) of a, both ends included.
Window(a, from, to, text) == SelSlice(a, "time", from, to, text)

\* dataset['rlut'].sel(time=slice('2010-01-01', '2014-12-31')).mean(dim='time').plot(...)
RadPlotRlutMean ==
  /\ RadCell(4)
  /\ "dataset" \in DOMAIN ns
  /\ LET v == Compute(Mean(Window(ns["dataset"].vars["rlut"], Date(2010, 1, 1),
                                  Date(2014, 12, 31), "2010-01-01:2014-12-31"),
                           {"time"}, "time")) IN
       /\ evals' = evals \o Stamp(4, v)
       /\ outs' = Append(outs, Fig(4, <<Panel(v, "", Some(150), Some(330), "default")>>))
  /\ UNCHANGED ns

\* A slip in net_toa: the reflected shortwave added back, rsdt-(rlut-rsut).
net_toa_regrouped(dataset) ==
  Minus(dataset.vars["rsdt"], Minus(dataset.vars["rlut"], dataset.vars["rsut"]))

\* net_toa = dataset['rsdt']-dataset['rlut']-dataset['rsut']
net_toa(dataset) ==
  Minus(Minus(dataset.vars["rsdt"], dataset.vars["rlut"]), dataset.vars["rsut"])

RadNetToa ==
  /\ RadCell(5)
  /\ "dataset" \in DOMAIN ns
  /\ LET v == net_toa(ns["dataset"]) IN
       /\ evals' = evals \o Stamp(5, v)
       /\ ns' = Assign(ns, "net_toa", Held(v))
  /\ UNCHANGED outs

\* A slip in toa_clim: compute() left out, the mean stays a graph.
toa_clim_not_computed(nt) == Mean(nt, {"time"}, "time")

\* toa_clim = net_toa.mean(dim='time').compute()
toa_clim(nt) == Compute(Mean(nt, {"time"}, "time"))

RadToaClim ==
  /\ RadCell(6)
  /\ "net_toa" \in DOMAIN ns
  /\ LET v == toa_clim(ns["net_toa"]) IN
       /\ evals' = evals \o Stamp(6, v)
       /\ ns' = Assign(ns, "toa_clim", Held(v))
  /\ UNCHANGED outs

\* toa_clim.plot()
RadPlotToaClim ==
  /\ RadCell(7)
  /\ "toa_clim" \in DOMAIN ns
  /\ LET v == Compute(ns["toa_clim"]) IN
       /\ evals' = evals \o Stamp(7, v)
       /\ outs' = Append(outs, Fig(7, <<Panel(v, "", None, None, "default")>>))
  /\ UNCHANGED ns

\* zonal_toa = toa_clim.mean(dim='lon')
zonal_toa(tc) == Mean(tc, {"lon"}, "lon")

\* zonal_toa = toa_clim.mean(dim='lon'); zonal_toa.plot()
RadZonalToa ==
  /\ RadCell(8)
  /\ "toa_clim" \in DOMAIN ns
  /\ LET v == zonal_toa(ns["toa_clim"])
         shown == Compute(v) IN
       /\ evals' = evals \o Stamp(8, shown)
       /\ ns' = Assign(ns, "zonal_toa", Held(v))
       /\ outs' = Append(outs, Fig(8, <<Panel(shown, "", None, None, "default")>>))

\* Earth = 6370000 (the radius, in metres)
Earth == 6370000
\* Lengths are kept in units of pi*Earth metres.
\* dlat = math.pi*Earth/len(zonal_toa.lat)
dlat(zt) == Rat(1, Len(Axis(zt, "lat")))
\* dlon = 2*math.pi*Earth*np.cos(np.deg2rad(zonal_toa.lat))
dlon(zt) == Scale(CosDeg(LatOf(zt)), Num(2), "2*pi*Earth")

Number(x) == [kind |-> "number", val |-> x]

\* import math; Earth = ...; dlat = ...; dlon = ...
RadGridSizes ==
  /\ RadCell(9)
  /\ "zonal_toa" \in DOMAIN ns /\ "np" \in DOMAIN ns
  /\ LET w == dlon(ns["zonal_toa"]) IN
       /\ evals' = evals \o Stamp(9, w)
       /\ ns' = Assign(Assign(Assign(Assign(ns, "math", Module("math")),
                                     "Earth", Number(Num(Earth))),
                              "dlat", Number(dlat(ns["zonal_toa"]))),
                       "dlon", Held(w))
  /\ UNCHANGED outs

\* global_transport = (np.cumsum(zonal_toa-zonal_toa.mean()))*dlon*dlat/10**15
\* (with lengths in units of pi*Earth, the result is in units of
\* (pi*Earth)^2 / 10^15 watts)
global_transport(zt, dlo, dla) ==
  Scale(Times(Cumsum(MinusScalar(zt, Mean(zt, Range(zt.dims), ""))), dlo),
        dla, "dlat/10**15")

\* global_transport = ...; global_transport.plot(); plt.title(...)
RadTransport ==
  /\ RadCell(10)
  /\ {"zonal_toa", "dlon", "dlat", "np", "plt"} \subseteq DOMAIN ns
  /\ LET v == global_transport(ns["zonal_toa"], ns["dlon"], ns["dlat"].val)
         shown == Compute(v) IN
       /\ evals' = evals \o Stamp(10, shown)
       /\ ns' = Assign(ns, "global_transport", Held(v))
       /\ outs' = Append(outs, Fig(10, <<Panel(shown, "Poleward Heat Transport (PW)",
                                                None, None, "default")>>))

\* area_weights = np.cos(np.deg2rad(x.lat))
area_weights(x) == CosDeg(LatOf(x))

\* area_weights = ...; net_toa.weighted(area_weights).mean(dim=['lon','lat']).plot()
RadAreaWeights ==
  /\ RadCell(11)
  /\ {"net_toa", "np"} \subseteq DOMAIN ns
  /\ LET w == area_weights(ns["net_toa"])
         v == Compute(WeightedMean(ns["net_toa"], Held(w), {"lon", "lat"}, "lon,lat")) IN
       /\ evals' = evals \o Stamp(11, w) \o Stamp(11, v)
       /\ ns' = Assign(ns, "area_weights", Held(w))
       /\ outs' = Append(outs, Fig(11, <<Panel(v, "", None, None, "default")>>))

\* cloud = xr.open_mfdataset('ussp/clt*EC-Earth*.nc')
RadOpenCloud ==
  /\ RadCell(12)
  /\ "xr" \in DOMAIN ns
  /\ ns' = Assign(ns, "cloud", open_mfdataset(EceCloudFiles))
  /\ UNCHANGED <<evals, outs>>

\* cloud['clt'].sel(time=slice('2010-01-01', '2014-12-31')).mean(dim='time').plot()
RadPlotCloud ==
  /\ RadCell(13)
  /\ "cloud" \in DOMAIN ns
  /\ LET v == Compute(Mean(Window(ns["cloud"].vars["clt"], Date(2010, 1, 1),
                                  Date(2014, 12, 31), "2010-01-01:2014-12-31"),
                           {"time"}, "time")) IN
       /\ evals' = evals \o Stamp(13, v)
       /\ outs' = Append(outs, Fig(13, <<Panel(v, "", None, None, "default")>>))
  /\ UNCHANGED ns

\* long_crf = (dataset['rlutcs']-dataset['rlut']).sel(time=slice('2010-01-01',
\*            '2014-12-31')).mean(dim='time')
long_crf(dataset) ==
  Mean(Window(Minus(dataset.vars["rlutcs"], dataset.vars["rlut"]),
              Date(2010, 1, 1), Date(2014, 12, 31), "2010-01-01:2014-12-31"),
       {"time"}, "time")

\* long_crf = ...; long_crf.plot()
RadLongCrf ==
  /\ RadCell(14)
  /\ "dataset" \in DOMAIN ns
  /\ LET v == long_crf(ns["dataset"])
         shown == Compute(v) IN
       /\ evals' = evals \o Stamp(14, shown)
       /\ ns' = Assign(ns, "long_crf", Held(v))
       /\ outs' = Append(outs, Fig(14, <<Panel(shown, "", None, None, "default")>>))

\* A slip in short_crf: the sign convention of long_crf not followed
\* (all-sky minus clear-sky).
short_crf_swapped(dataset) ==
  Mean(Window(Minus(dataset.vars["rsut"], dataset.vars["rsutcs"]),
              Date(2010, 1, 1), Date(2014, 12, 31), "2010-01-01:2014-12-31"),
       {"time"}, "time")

\* short_crf = (dataset['rsutcs']-dataset['rsut']).sel(time=slice('2010-01-01',
\*             '2014-12-31')).mean(dim='time')
short_crf(dataset) ==
  Mean(Window(Minus(dataset.vars["rsutcs"], dataset.vars["rsut"]),
              Date(2010, 1, 1), Date(2014, 12, 31), "2010-01-01:2014-12-31"),
       {"time"}, "time")

\* short_crf = ...; short_crf.plot()
RadShortCrf ==
  /\ RadCell(15)
  /\ "dataset" \in DOMAIN ns
  /\ LET v == short_crf(ns["dataset"])
         shown == Compute(v) IN
       /\ evals' = evals \o Stamp(15, shown)
       /\ ns' = Assign(ns, "short_crf", Held(v))
       /\ outs' = Append(outs, Fig(15, <<Panel(shown, "", None, None, "default")>>))

\* ceres = xr.open_dataset('ussp/CERES-2020-2022.nc'); ceres
RadOpenCeres ==
  /\ RadCell(16)
  /\ "xr" \in DOMAIN ns
  /\ ns' = Assign(ns, "ceres", open_dataset(CeresFile))
  /\ UNCHANGED <<evals, outs>>

\* right_ece = net_toa.sel(time=slice('2001-01-01', '2014-12-31')).mean(dim='time')
right_ece(nt) ==
  Mean(Window(nt, Date(2001, 1, 1), Date(2014, 12, 31), "2001-01-01:2014-12-31"),
       {"time"}, "time")
\* right_ceres = ceres['toa_net_all_mon'].sel(time=slice('2001-01-01',
\*               '2014-12-31')).mean(dim='time')
right_ceres(ceres) ==
  Mean(Window(ceres.vars["toa_net_all_mon"], Date(2001, 1, 1), Date(2014, 12, 31),
              "2001-01-01:2014-12-31"),
       {"time"}, "time")
\* bias = right_ece - right_ceres
bias(ece, ceres) == Minus(ece, ceres)

\* right_ece = ...; right_ceres = ...; bias = ...; bias.plot()
RadBias ==
  /\ RadCell(17)
  /\ {"net_toa", "ceres"} \subseteq DOMAIN ns
  /\ LET e == right_ece(ns["net_toa"])
         c == right_ceres(ns["ceres"])
         b == bias(Held(e), Held(c))
         shown == Compute(b) IN
       /\ evals' = evals \o Stamp(17, e) \o Stamp(17, c) \o Stamp(17, shown)
       /\ ns' = Assign(Assign(Assign(ns, "right_ece", Held(e)), "right_ceres", Held(c)),
                       "bias", Held(b))
       /\ outs' = Append(outs, Fig(17, <<Panel(shown, "", None, None, "default")>>))

\* bias.weighted(area_weights).mean().values
RadBiasMean ==
  /\ RadCell(18)
  /\ {"bias", "area_weights"} \subseteq DOMAIN ns
  /\ LET v == Compute(WeightedMean(ns["bias"], ns["area_weights"],
                                   Range(ns["bias"].dims), "")) IN
       /\ evals' = evals \o Stamp(18, v)
       /\ outs' = Append(outs, Fig(18, <<Panel(v, "values", None, None, "")>>))
  /\ UNCHANGED ns

\* heatfluxes = xr.open_mfdataset('ussp/h*EC-Earth*.nc', ...)
RadOpenHeat ==
  /\ RadCell(19)
  /\ "xr" \in DOMAIN ns
  /\ ns' = Assign(ns, "heatfluxes", open_mfdataset(EceHeatFiles))
  /\ UNCHANGED <<evals, outs>>

\* xr.merge([a, b]): a new data set holding the variables of both.
merge(a, b) ==
  [kind |-> "Dataset",
   vars |-> [v \in DOMAIN a.vars \cup DOMAIN b.vars |->
               IF v \in DOMAIN a.vars THEN a.vars[v] ELSE b.vars[v]]]

\* A slip in the merge: the heat fluxes are merged into dataset in place
\* (dataset.update(heatfluxes)) and the result is bound to radiation too.
RadMergeInPlace ==
  /\ RadCell(20)
  /\ {"heatfluxes", "dataset", "xr"} \subseteq DOMAIN ns
  /\ LET merged == merge(ns["heatfluxes"], ns["dataset"]) IN
       ns' = Assign(Assign(ns, "dataset", merged), "radiation", merged)
  /\ UNCHANGED <<evals, outs>>

\* radiation = xr.merge([heatfluxes, dataset]); radiation
RadMerge ==
  /\ RadCell(20)
  /\ {"heatfluxes", "dataset", "xr"} \subseteq DOMAIN ns
  /\ ns' = Assign(ns, "radiation", merge(ns["heatfluxes"], ns["dataset"]))
  /\ UNCHANGED <<evals, outs>>

RadNext ==
  \/ RadImports \/ RadOpenDataset \/ RadPlotLast \/ RadPlotRlutMean \/ RadNetToa
  \/ RadToaClim \/ RadPlotToaClim \/ RadZonalToa \/ RadGridSizes \/ RadTransport
  \/ RadAreaWeights \/ RadOpenCloud \/ RadPlotCloud \/ RadLongCrf \/ RadShortCrf
  \/ RadOpenCeres \/ RadBias \/ RadBiasMean \/ RadOpenHeat \/ RadMerge

SpecRadiation == RadInit /\ [][RadNext]_vars

(***************************************************************************)
(* Claims about the radiation budget notebook.                             *)
(***************************************************************************)
\* The value of the one-dimensional array a at position k of its axis.
At(a, k) == a.data[<<a.coords[1][k]>>]

\* C3: for every latitude index k, global_transport[k] is the sum over
\* j = 1..k (in axis order, from the South Pole) of
\* (zonal_toa[j] - mean(zonal_toa)) * dlon[j] * dlat / 10^15.
C3_TransportIsAreaWeightedIntegral ==
  "global_transport" \in DOMAIN ns =>
    LET zt == ns["zonal_toa"]
        n == Len(zt.coords[1])
        mean == RDiv(RSum(zt.data, DOMAIN zt.data), Num(n))
        term(j) == RMul(RMul(RSub(At(zt, j), mean), At(ns["dlon"], j)), ns["dlat"].val)
        integral[k \in 0..n] == IF k = 0 THEN Num(0) ELSE RAdd(integral[k - 1], term(k))
    IN \A k \in 1..n : At(ns["global_transport"], k) = integral[k]

\* The time steps of axis inside from..to, both ends included.
Inside(axis, from, to) == {t \in Range(axis) : from <= t /\ t <= to}

\* The mean over the time steps T of clear - allsky at the grid point q
\* (a pair of latitude and longitude).
MeanDifference(clear, allsky, T, q) ==
  RDiv(RSum([t \in T |-> RSub(clear.data[<<t>> \o q], allsky.data[<<t>> \o q])], T),
       Num(Cardinality(T)))

\* C6: long_crf and short_crf are both the clear-sky field minus the all-sky
\* field of the same direction and level (rlutcs - rlut, rsutcs - rsut), both
\* averaged over the time steps of 2010-01-01..2014-12-31.
C6_CrfIsClearMinusAllSky ==
  {"long_crf", "short_crf"} \subseteq DOMAIN ns =>
    LET d == ns["dataset"].vars
        T == Inside(d["rlut"].coords[1], Date(2010, 1, 1), Date(2014, 12, 31))
        grid == Points(<<d["rlut"].coords[2], d["rlut"].coords[3]>>)
    IN /\ DOMAIN ns["long_crf"].data = grid
       /\ DOMAIN ns["short_crf"].data = grid
       /\ \A q \in grid :
            /\ ns["long_crf"].data[q] = MeanDifference(d["rlutcs"], d["rlut"], T, q)
            /\ ns["short_crf"].data[q] = MeanDifference(d["rsutcs"], d["rsut"], T, q)

\* C6 witness: both forcings are bound, the window holds some but not all of
\* the time steps, and the two forcings are not zero everywhere.
C6_Witness ==
  /\ {"long_crf", "short_crf"} \subseteq DOMAIN ns
  /\ LET axis == ns["dataset"].vars["rlut"].coords[1]
         T == Inside(axis, Date(2010, 1, 1), Date(2014, 12, 31))
     IN T # {} /\ T # Range(axis) /\ Date(2010, 1, 1) \in T
  /\ \E q \in DOMAIN ns["long_crf"].data : ns["long_crf"].data[q].n # 0
  /\ \E q \in DOMAIN ns["short_crf"].data : ns["short_crf"].data[q].n # 0

\* C7: at every grid point and time step net_toa is rsdt minus rsut minus
\* rlut (incoming minus outgoing).
C7_NetToaIsIncomingMinusOutgoing ==
  "net_toa" \in DOMAIN ns =>
    LET d == ns["dataset"].vars IN
      /\ DOMAIN ns["net_toa"].data = DOMAIN d["rsdt"].data
      /\ \A p \in DOMAIN d["rsdt"].data :
           ns["net_toa"].data[p] =
             RSub(RSub(d["rsdt"].data[p], d["rsut"].data[p]), d["rlut"].data[p])

\* C7 witness: net_toa is bound, and somewhere both outgoing fluxes are not
\* zero and net_toa is negative (more leaves than enters).
C7_Witness ==
  /\ "net_toa" \in DOMAIN ns
  /\ \E p \in DOMAIN ns["net_toa"].data :
       /\ ns["dataset"].vars["rsut"].data[p].n # 0
       /\ ns["dataset"].vars["rlut"].data[p].n # 0
       /\ ns["net_toa"].data[p].n < 0

\* C8: right_ece and right_ceres are each the time mean of a non-empty set
\* of time steps inside 2001-01-01..2014-12-31, and bias is their difference
\* on the grid points common to both.
C8_BiasComparesSamePeriod ==
  "bias" \in DOMAIN ns =>
    LET nt == ns["net_toa"]
        ce == ns["ceres"].vars["toa_net_all_mon"]
        grid == Points(<<Common(nt.coords[2], ce.coords[2]), Common(nt.coords[3], ce.coords[3])>>)
    IN /\ Inside(nt.coords[1], Date(2001, 1, 1), Date(2014, 12, 31)) # {}
       /\ Inside(ce.coords[1], Date(2001, 1, 1), Date(2014, 12, 31)) # {}
       /\ DOMAIN ns["bias"].data = grid
       /\ \A q \in grid :
            ns["bias"].data[q] = RSub(ns["right_ece"].data[q], ns["right_ceres"].data[q])

\* Whether expression e holds expression x.
RECURSIVE Holds(_, _)
Holds(e, x) == e = x \/ \E i \in DOMAIN e.kids : Holds(e.kids[i], x)

\* The time mean of net_toa, as an expression.
TimeMeanOfNetToa ==
  E("mean", "time",
    <<E("sub", "", <<E("sub", "", <<FileLeaf("rsdt"), FileLeaf("rlut")>>), FileLeaf("rsut")>>)>>)

\* C10: defining net_toa (cell 5) evaluates nothing; the time mean of
\* net_toa is evaluated by the compute() cell (cell 6) and by no later cell:
\* once bound, toa_clim is held in memory.
C10_ToaClimComputedOnce ==
  nb = "radiation" =>
    /\ \A i \in DOMAIN evals :
         /\ evals[i].cell # 5
         /\ Holds(evals[i].expr, TimeMeanOfNetToa) => evals[i].cell = 6
    /\ "toa_clim" \in DOMAIN ns =>
         /\ ~ns["toa_clim"].lazy
         /\ ns["toa_clim"].graph = Mem
         /\ Cardinality({i \in DOMAIN evals : Holds(evals[i].expr, TimeMeanOfNetToa)}) = 1

\* C10 witness: the heat-transport cell has run, after toa_clim was plotted
\* and averaged along the longitudes, and the time mean was evaluated in
\* cell 6.
C10_Witness ==
  /\ nb = "radiation"
  /\ "global_transport" \in DOMAIN ns
  /\ \E i \in DOMAIN outs : outs[i].cell = 7
  /\ \E i \in DOMAIN evals : evals[i].cell = 6 /\ evals[i].expr = TimeMeanOfNetToa
  /\ \E i \in DOMAIN evals : evals[i].cell = 8

(***************************************************************************)
(* -------------------------  1-DataAnalysis.ipynb  ---------------------- *)
(***************************************************************************)
EceTasFile == "ussp/tas_EC-Earth3_historical_r1p1if1_1850-2014.nc"
Era5File == "ussp/tas_ERA5_1940-2022.nc"

\* The last year of the ERA5 file (named 1940-2022).
Era5LastYear == 2022
\* The months of the year the sampled monthly axes hold.
SampleMonths == <<1, 7, 12>>
\* The time axis of a monthly file ending in year last: the sampled months of
\* its last NYears years, stamped on day day of the month.
MonthlyTime(last, day) ==
  [i \in 1..(NYears * Len(SampleMonths)) |->
     Date(last - NYears + 1 + (i - 1) \div Len(SampleMonths),
          SampleMonths[((i - 1) % Len(SampleMonths)) + 1], day)]
StampDaysOfMonth == {1, 16}
\* The last sampled year of the ERA5 file: the files share the years from
\* 1940 to LastYear, and the sampled axes share all their years but one.
Era5SampleLast == IF LastYear < Era5LastYear THEN LastYear + 1 ELSE Era5LastYear

AnInit ==
  /\ ShellIdle
  /\ nb = "analysis"
  /\ cell = 1
  /\ ns = <<>>
  /\ evals = <<>>
  /\ outs = <<>>
  /\ \E k \in 0..MaxSample, day \in StampDaysOfMonth, elat \in {GridLat} \cup OtherLats :
       disk = [f \in {EceTasFile, Era5File} |->
                 IF f = EceTasFile
                 THEN FileContent(k, <<"tas">>, MonthlyTime(LastYear, day), GridLat, GridLon)
                 ELSE FileContent(k + 1, <<"tas">>, MonthlyTime(Era5SampleLast, day),
                                  elat, GridLon)]

AnCell(c) ==
  /\ nb = "analysis"
  /\ cell = c
  /\ cell' = c + 1
  /\ UNCHANGED <<nb, disk>>
  /\ UNCHANGED shvars

\* v.plot(): the values are computed if need be and drawn.
Draw(c, v) == Fig(c, <<Panel(v, "", None, None, "default")>>)

\* import xarray as xr; import numpy as np; import matplotlib.pyplot as plt
AnImports ==
  /\ AnCell(1)
  /\ ns' = Assign(Assign(Assign(ns, "xr", Module("xarray")), "np", Module("numpy")),
                  "plt", Module("matplotlib.pyplot"))
  /\ UNCHANGED <<evals, outs>>

\* data = xr.open_dataset('ussp/tas_EC-Earth3_historical_r1p1if1_1850-2014.nc'); data
AnOpenData ==
  /\ AnCell(2)
  /\ "xr" \in DOMAIN ns
  /\ ns' = Assign(ns, "data", open_dataset(EceTasFile))
  /\ UNCHANGED <<evals, outs>>

\* data['tas']
AnShowTas ==
  /\ AnCell(3)
  /\ "data" \in DOMAIN ns
  /\ UNCHANGED <<ns, evals, outs>>

\* data.time_bnds
AnShowTimeBnds ==
  /\ AnCell(4)
  /\ "data" \in DOMAIN ns
  /\ UNCHANGED <<ns, evals, outs>>

\* data.time_bnds.data
AnShowTimeBndsData ==
  /\ AnCell(5)
  /\ "data" \in DOMAIN ns
  /\ UNCHANGED <<ns, evals, outs>>

\* data['tas'].mean(dim=['lon', 'lat'])
wrong_mean(data) == Mean(data.vars["tas"], {"lon", "lat"}, "lon,lat")

\* wrong_mean = data['tas'].mean(dim=['lon', 'lat'])
AnWrongMean ==
  /\ AnCell(6)
  /\ "data" \in DOMAIN ns
  /\ LET v == wrong_mean(ns["data"]) IN
       /\ evals' = evals \o Stamp(6, v)
       /\ ns' = Assign(ns, "wrong_mean", Held(v))
  /\ UNCHANGED outs

\* wrong_mean.plot()
AnPlotWrongMean ==
  /\ AnCell(7)
  /\ "wrong_mean" \in DOMAIN ns
  /\ LET v == Compute(ns["wrong_mean"]) IN
       /\ evals' = evals \o Stamp(7, v)
       /\ outs' = Append(outs, Draw(7, v))
  /\ UNCHANGED ns

\* wrong_mean.sel(time=slice('2000-01-01', '2010-01-01')).plot()
AnPlotWrongMeanDecade ==
  /\ AnCell(8)
  /\ "wrong_mean" \in DOMAIN ns
  /\ LET v == Compute(Window(ns["wrong_mean"], Date(2000, 1, 1), Date(2010, 1, 1),
                             "2000-01-01:2010-01-01")) IN
       /\ evals' = evals \o Stamp(8, v)
       /\ outs' = Append(outs, Draw(8, v))
  /\ UNCHANGED ns

\* A slip in the rebinding cell: the resampling is left out.
wrong_mean_not_resampled(data) == wrong_mean(data)

\* data['tas'].mean(dim=['lon', 'lat']).resample(time='Y').mean()
wrong_mean_yearly(data) == ResampleMean(wrong_mean(data), "Y")

\* wrong_mean = data['tas'].mean(dim=['lon', 'lat']).resample(time='Y').mean()
\* wrong_mean.plot()
AnWrongMeanYearly ==
  /\ AnCell(9)
  /\ "data" \in DOMAIN ns
  /\ LET v == wrong_mean_yearly(ns["data"])
         shown == Compute(v) IN
       /\ evals' = evals \o Stamp(9, shown)
       /\ ns' = Assign(ns, "wrong_mean", Held(v))
       /\ outs' = Append(outs, Draw(9, shown))

\* select = data['tas'].sel(time=slice('2000-01-01', '2010-01-01'))
\* zonal = select.mean(dim='lon').sel(lat=[-89.5, 0.5, 89.5])
\* zonal.plot.line(x="time")
AnZonal ==
  /\ AnCell(10)
  /\ "data" \in DOMAIN ns
  /\ LET select == Window(ns["data"].vars["tas"], Date(2000, 1, 1), Date(2010, 1, 1),
                          "2000-01-01:2010-01-01")
         zonal == SelLabels(Mean(Held(select), {"lon"}, "lon"), "lat", <<-895, 5, 895>>,
                            "-89.5,0.5,89.5")
         shown == Compute(zonal) IN
       /\ evals' = evals \o Stamp(10, select) \o Stamp(10, shown)
       /\ ns' = Assign(Assign(ns, "select", Held(select)), "zonal", Held(zonal))
       /\ outs' = Append(outs, Draw(10, shown))

\* area_weights = np.cos(np.deg2rad(data.lat))
AnAreaWeights ==
  /\ AnCell(11)
  /\ {"data", "np"} \subseteq DOMAIN ns
  /\ LET w == area_weights(ns["data"].vars["tas"]) IN
       /\ evals' = evals \o Stamp(11, w)
       /\ ns' = Assign(ns, "area_weights", Held(w))
  /\ UNCHANGED outs

\* weighted_mean = data['tas'].weighted(area_weights).mean(dim=['lon', 'lat'])
\*                 .resample(time='Y').mean()
weighted_mean(data, weights) ==
  ResampleMean(WeightedMean(data.vars["tas"], weights, {"lon", "lat"}, "lon,lat"), "Y")

AnWeightedMean ==
  /\ AnCell(12)
  /\ {"data", "area_weights"} \subseteq DOMAIN ns
  /\ LET v == weighted_mean(ns["data"], ns["area_weights"]) IN
       /\ evals' = evals \o Stamp(12, v)
       /\ ns' = Assign(ns, "weighted_mean", Held(v))
  /\ UNCHANGED outs

\* weighted_mean.plot(label="weighted"); wrong_mean.plot(label="unweighted"); plt.legend()
AnPlotWeightedAndWrong ==
  /\ AnCell(13)
  /\ {"weighted_mean", "wrong_mean", "plt"} \subseteq DOMAIN ns
  /\ LET a == Compute(ns["weighted_mean"])
         b == Compute(ns["wrong_mean"]) IN
       /\ evals' = evals \o Stamp(13, a) \o Stamp(13, b)
       /\ outs' = Append(outs, Fig(13, <<Panel(a, "weighted", None, None, "default"),
                                         Panel(b, "unweighted", None, None, "default")>>))
  /\ UNCHANGED ns

\* era5 = xr.open_mfdataset('ussp/tas_ERA5_1940-2022.nc'); era5
AnOpenEra5 ==
  /\ AnCell(14)
  /\ "xr" \in DOMAIN ns
  /\ ns' = Assign(ns, "era5", open_mfdataset(Era5File))
  /\ UNCHANGED <<evals, outs>>

\* era5_mean = era5['tas'].weighted(area_weights).mean(dim=['lon', 'lat'])
\*             .resample(time='YS').mean()
era5_mean(era5, weights) ==
  ResampleMean(WeightedMean(era5.vars["tas"], weights, {"lon", "lat"}, "lon,lat"), "YS")

AnEra5Mean ==
  /\ AnCell(15)
  /\ {"era5", "area_weights"} \subseteq DOMAIN ns
  /\ LET v == era5_mean(ns["era5"], ns["area_weights"]) IN
       /\ evals' = evals \o Stamp(15, v)
       /\ ns' = Assign(ns, "era5_mean", Held(v))
  /\ UNCHANGED outs

\* weighted_mean.plot(label="EC-Earth3", ...); era5_mean.plot(label="ERA5", ...); plt.legend()
AnPlotModelAndEra5 ==
  /\ AnCell(16)
  /\ {"weighted_mean", "era5_mean", "plt"} \subseteq DOMAIN ns
  /\ LET a == Compute(ns["weighted_mean"])
         b == Compute(ns["era5_mean"]) IN
       /\ evals' = evals \o Stamp(16, a) \o Stamp(16, b)
       /\ outs' = Append(outs, Fig(16, <<Panel(a, "EC-Earth3", None, None, "green"),
                                         Panel(b, "ERA5", None, None, "purple")>>))
  /\ UNCHANGED ns

\* What a plotting call returns: the drawn artist, not the plotted field.
Artist(kind) == [kind |-> kind]

\* clim = data['tas'].sel(time=slice('1980-01-01', '2009-12-31')).mean(dim='time')
\* clim.plot()
AnClim ==
  /\ AnCell(17)
  /\ "data" \in DOMAIN ns
  /\ LET v == Mean(Window(ns["data"].vars["tas"], Date(1980, 1, 1), Date(2009, 12, 31),
                          "1980-01-01:2009-12-31"), {"time"}, "time") IN
       /\ evals' = evals \o Stamp(17, v)
       /\ ns' = Assign(ns, "clim", Held(v))
       /\ outs' = Append(outs, Draw(17, Held(v)))

\* std = data['tas'].sel(time=slice('1980-01-01', '2009-12-31')).std(dim='time')
\* std.plot()
AnStd ==
  /\ AnCell(18)
  /\ "data" \in DOMAIN ns
  /\ LET v == StdSquared(Window(ns["data"].vars["tas"], Date(1980, 1, 1),
                                Date(2009, 12, 31), "1980-01-01:2009-12-31"),
                         {"time"}, "time") IN
       /\ evals' = evals \o Stamp(18, v)
       /\ ns' = Assign(ns, "std", Held(v))
       /\ outs' = Append(outs, Draw(18, Held(v)))

\* A slip in the seasonal selection: the month mask is left out, and the
\* mean runs over every time step of the window.
MonthClimUnmasked(data, m, text) ==
  Mean(Window(data.vars["tas"], Date(2000, 1, 1), Date(2009, 12, 31),
              "2000-01-01:2009-12-31"), {"time"}, "time")

\* data['tas'].sel(time=(data.time.dt.month==m)).sel(time=slice('2000-01-01',
\* '2009-12-31')).mean(dim='time')
MonthClim(data, m, text) ==
  Mean(Window(SelMonth(data.vars["tas"], m, text), Date(2000, 1, 1), Date(2009, 12, 31),
              "2000-01-01:2009-12-31"), {"time"}, "time")

\* jan = ...month==1...; jan.plot()
AnJan ==
  /\ AnCell(19)
  /\ "data" \in DOMAIN ns
  /\ LET v == MonthClim(ns["data"], 1, "month==1") IN
       /\ evals' = evals \o Stamp(19, v)
       /\ ns' = Assign(ns, "jan", Held(v))
       /\ outs' = Append(outs, Draw(19, Held(v)))

\* jul = ...month==7...; delta = (jul - jan).plot()
AnJulDelta ==
  /\ AnCell(20)
  /\ {"data", "jan"} \subseteq DOMAIN ns
  /\ LET jul == MonthClim(ns["data"], 7, "month==7")
         d == Minus(Held(jul), ns["jan"]) IN
       /\ evals' = evals \o Stamp(20, jul) \o Stamp(20, d)
       /\ ns' = Assign(Assign(ns, "jul", Held(jul)), "delta", Artist("QuadMesh"))
       /\ outs' = Append(outs, Draw(20, Held(d)))

\* import cartopy.crs as ccrs; plotproj = dict(projection=ccrs.Orthographic(0, 35), ...)
\* climate = data['tas'].sel(time=slice('2000-01-01', '2010-01-01')).mean(dim='time')
\* pp = climate.plot(subplot_kws=plotproj, transform=ccrs.PlateCarree())
\* pp.axes.coastlines()
AnClimateMap ==
  /\ AnCell(21)
  /\ "data" \in DOMAIN ns
  /\ LET v == Mean(Window(ns["data"].vars["tas"], Date(2000, 1, 1), Date(2010, 1, 1),
                          "2000-01-01:2010-01-01"), {"time"}, "time") IN
       /\ evals' = evals \o Stamp(21, v)
       /\ ns' = Assign(Assign(Assign(Assign(ns, "ccrs", Module("cartopy.crs")),
                                     "plotproj", [projection |-> "Orthographic(0, 35)",
                                                  facecolor |-> "gray"]),
                              "climate", Held(v)), "pp", Artist("QuadMesh"))
       /\ outs' = Append(outs, Fig(21, <<Panel(Held(v), "", None, None, "Orthographic")>>))

\* pp = climate.plot.contourf(subplot_kws=dict(projection=ccrs.PlateCarree()))
\* pp.axes.coastlines()
AnClimateContour ==
  /\ AnCell(22)
  /\ {"climate", "ccrs"} \subseteq DOMAIN ns
  /\ ns' = Assign(ns, "pp", Artist("QuadContourSet"))
  /\ outs' = Append(outs, Fig(22, <<Panel(ns["climate"], "", None, None, "PlateCarree")>>))
  /\ UNCHANGED evals

\* italy = data['tas'].sel(lon=slice(5,20),lat=slice(35,50)).mean(dim='time')
\* pp = italy.plot(subplot_kws=dict(projection=ccrs.PlateCarree()))
\* pp.axes.coastlines()
AnItaly ==
  /\ AnCell(23)
  /\ {"data", "ccrs"} \subseteq DOMAIN ns
  /\ LET box == SelSlice(SelSlice(ns["data"].vars["tas"], "lon", 50, 200, "5:20"),
                         "lat", 350, 500, "35:50")
         v == Mean(box, {"time"}, "time") IN
       /\ evals' = evals \o Stamp(23, v)
       /\ ns' = Assign(Assign(ns, "italy", Held(v)), "pp", Artist("QuadMesh"))
       /\ outs' = Append(outs, Fig(23, <<Panel(Held(v), "", None, None, "PlateCarree")>>))

AnNext ==
  \/ AnImports \/ AnOpenData \/ AnShowTas \/ AnShowTimeBnds \/ AnShowTimeBndsData
  \/ AnWrongMean \/ AnPlotWrongMean \/ AnPlotWrongMeanDecade \/ AnWrongMeanYearly
  \/ AnZonal \/ AnAreaWeights \/ AnWeightedMean \/ AnPlotWeightedAndWrong
  \/ AnOpenEra5 \/ AnEra5Mean \/ AnPlotModelAndEra5
  \/ AnClim \/ AnStd \/ AnJan \/ AnJulDelta
  \/ AnClimateMap \/ AnClimateContour \/ AnItaly

SpecAnalysis == AnInit /\ [][AnNext]_vars

(***************************************************************************)
(* Claims about the data analysis notebook.                                *)
(***************************************************************************)
\* The area mean of a(time, lat, lon) over every grid cell, each cell scaled
\* by the cosine of its own latitude.
AreaMean(a) ==
  LET Cells(q) == {p \in DOMAIN a.data : p[1] = q[1]}
      Cos(p) == Rat(CosMilli(p[2]), 1000)
  IN [q \in Points(<<a.coords[1]>>) |->
        RDiv(RSum([p \in Cells(q) |-> RMul(a.data[p], Cos(p))], Cells(q)),
             RSum([p \in Cells(q) |-> Cos(p)], Cells(q)))]

\* The yearly means of a series s of values on the time axis of a, labelled
\* as a.resample(time=freq) labels them.
YearlyOf(a, s, freq) ==
  ResampleMean([a EXCEPT !.dims = <<"time">>, !.coords = <<a.coords[1]>>, !.data = s],
               freq).data

\* C5: every area-weighted mean of the notebook (EC-Earth3 tas, ERA5 tas) is
\* the mean over every grid cell of the averaged field, each cell scaled by
\* the cosine of its own latitude, also for ERA5, whose weights were built
\* from the latitude axis of the EC-Earth3 dataset.
C5_EveryCellWeightedByOwnLatitude ==
  nb = "analysis" =>
    /\ "weighted_mean" \in DOMAIN ns =>
         ns["weighted_mean"].data
           = YearlyOf(ns["data"].vars["tas"], AreaMean(ns["data"].vars["tas"]), "Y")
    /\ "era5_mean" \in DOMAIN ns =>
         ns["era5_mean"].data
           = YearlyOf(ns["era5"].vars["tas"], AreaMean(ns["era5"].vars["tas"]), "YS")

\* data['tas'].mean(dim=['lon', 'lat']) as a computation.
SpatialMeanOfTas == E("mean", "lon,lat", <<FileLeaf("tas")>>)

\* C9: the cell that binds wrong_mean executes no computation, and the
\* spatial mean is evaluated by the first cell that plots it.
C9_WrongMeanIsLazy ==
  nb = "analysis" =>
    /\ \A i \in DOMAIN evals : evals[i].cell # 6
    /\ cell > 7 =>
         \E i \in DOMAIN evals : evals[i].cell = 7 /\ evals[i].expr = SpatialMeanOfTas

\* The mean of a over the time steps T at the grid point q.
MeanAt(a, T, q) ==
  IF T = {} THEN NaN
  ELSE RDiv(RSum([t \in T |-> a.data[<<t>> \o q]], T), Num(Cardinality(T)))

\* The time steps of axis in calendar month m of 2000-01-01..2009-12-31.
SeasonSteps(axis, m) ==
  {t \in Inside(axis, Date(2000, 1, 1), Date(2009, 12, 31)) : Month(t) = m}

\* C15: jan is the time mean over exactly the time steps of calendar month 1
\* inside 2000-01-01..2009-12-31 (ends included), jul the same for month 7,
\* the plotted delta is jul - jan at every grid point, and the month mask
\* and the time slice select the same time steps in either order.
C15_SeasonalSelection ==
  (nb = "analysis" /\ "jul" \in DOMAIN ns) =>
    LET tas == ns["data"].vars["tas"]
        grid == Points(<<tas.coords[2], tas.coords[3]>>)
        shown == outs[Len(outs)].panels[1].shows.data
        slice(a) == Window(a, Date(2000, 1, 1), Date(2009, 12, 31), "")
    IN /\ DOMAIN ns["jan"].data = grid
       /\ DOMAIN ns["jul"].data = grid
       /\ \A q \in grid :
            /\ ns["jan"].data[q] = MeanAt(tas, SeasonSteps(tas.coords[1], 1), q)
            /\ ns["jul"].data[q] = MeanAt(tas, SeasonSteps(tas.coords[1], 7), q)
       /\ cell = 21 =>
            /\ DOMAIN shown = grid
            /\ \A q \in grid : shown[q] = RSub(ns["jul"].data[q], ns["jan"].data[q])
       /\ \A m \in {1, 7} :
            /\ slice(SelMonth(tas, m, "")).coords = SelMonth(slice(tas), m, "").coords
            /\ slice(SelMonth(tas, m, "")).data = SelMonth(slice(tas), m, "").data

\* C15 witness: jul and the delta plot exist; the window holds more than one
\* January and more than one July, steps of other months, and not every
\* January of the file; and the delta is not zero everywhere.
C15_Witness ==
  /\ nb = "analysis"
  /\ cell = 21
  /\ "jul" \in DOMAIN ns
  /\ LET axis == ns["data"].vars["tas"].coords[1] IN
       /\ Cardinality(SeasonSteps(axis, 1)) > 1
       /\ Cardinality(SeasonSteps(axis, 7)) > 1
       /\ \E t \in Inside(axis, Date(2000, 1, 1), Date(2009, 12, 31)) : Month(t) = 12
       /\ \E t \in Range(axis) : Month(t) = 1 /\ t \notin SeasonSteps(axis, 1)
  /\ \E q \in DOMAIN ns["jul"].data : ns["jul"].data[q] # ns["jan"].data[q]

(***************************************************************************)
(* ----------------------  the paleoclimate notebook  -------------------- *)
(***************************************************************************)
HistoricalGlob == "ussp/*AWI*historical*.nc"
LgmGlob == "ussp/*AWI*lgm*.nc"
LigGlob == "ussp/*AWI*lig*.nc"
Experiments == <<HistoricalGlob, LgmGlob, LigGlob>>

\* The variables of an experiment; ua is on pressure levels.
PaleoNames == <<"ps", "pr", "tas", "ua">>
\* Pressure axes (Pa) a file can hold; each holds the 850 hPa level.
PlevAxes == {<<100000, 85000>>, <<100000, 85000, 50000>>}
\* The one time stamp of the files.
PaleoStamps == {Date(2000, 1, 1), Date(2000, 7, 1)}

\* The files of one experiment, read together: every variable on the same
\* time, lat and lon axes (join="override" gives all files the first one's).
Experiment(k, time, plev) ==
  [v \in Range(PaleoNames) |->
     IF v = "ua"
     THEN Field(k, Pos(PaleoNames, v), v, <<"time", "plev", "lat", "lon">>,
                <<time, plev, GridLat, GridLon>>)
     ELSE Field(k, Pos(PaleoNames, v), v, <<"time", "lat", "lon">>,
                <<time, GridLat, GridLon>>)]

PaleoInit ==
  /\ ShellIdle
  /\ nb = "paleo"
  /\ cell = 1
  /\ ns = <<>>
  /\ evals = <<>>
  /\ outs = <<>>
  /\ \E k \in 0..MaxSample, t \in PaleoStamps, plev \in PlevAxes :
       disk = [f \in Range(Experiments) |-> Experiment(k + Pos(Experiments, f), <<t>>, plev)]

PaleoCell(c) ==
  /\ nb = "paleo"
  /\ cell = c
  /\ cell' = c + 1
  /\ UNCHANGED <<nb, disk>>
  /\ UNCHANGED shvars

\* import xarray as xr; import numpy as np; import matplotlib.pyplot as plt
\* import cartopy.crs as ccrs
PaleoImports ==
  /\ PaleoCell(1)
  /\ ns' = Assign(Assign(Assign(Assign(ns, "xr", Module("xarray")), "np", Module("numpy")),
                         "plt", Module("matplotlib.pyplot")), "ccrs", Module("cartopy.crs"))
  /\ UNCHANGED <<evals, outs>>

\* historical = xr.open_mfdataset('ussp/*AWI*historical*.nc', compat='override',
\*                                join="override"); historical
PaleoOpenHistorical ==
  /\ PaleoCell(2)
  /\ "xr" \in DOMAIN ns
  /\ ns' = Assign(ns, "historical", open_mfdataset(HistoricalGlob))
  /\ UNCHANGED <<evals, outs>>

\* lgm = xr.open_mfdataset('ussp/*AWI*lgm*.nc', ...); lgm
PaleoOpenLgm ==
  /\ PaleoCell(3)
  /\ "xr" \in DOMAIN ns
  /\ ns' = Assign(ns, "lgm", open_mfdataset(LgmGlob))
  /\ UNCHANGED <<evals, outs>>

\* lig = xr.open_mfdataset('ussp/*AWI*lig*.nc', ...); lig
PaleoOpenLig ==
  /\ PaleoCell(4)
  /\ "xr" \in DOMAIN ns
  /\ ns' = Assign(ns, "lig", open_mfdataset(LigGlob))
  /\ UNCHANGED <<evals, outs>>

\* pp = (lgm['ps']-historical['ps']).plot(subplot_kws=dict(projection=ccrs.PlateCarree()))
\* pp.axes.coastlines()
PaleoPlotPs ==
  /\ PaleoCell(5)
  /\ {"lgm", "historical", "ccrs"} \subseteq DOMAIN ns
  /\ LET v == Compute(Minus(ns["lgm"].vars["ps"], ns["historical"].vars["ps"])) IN
       /\ evals' = evals \o Stamp(5, v)
       /\ ns' = Assign(ns, "pp", Artist("QuadMesh"))
       /\ outs' = Append(outs, Fig(5, <<Panel(v, "", None, None, "default")>>))

\* Seconds in a day: kg m-2 s-1 to mm/day.
SecondsPerDay == 86400

\* fig, axs = plt.subplots(3,1, ...)
\* (lgm['pr']*86400).plot(ax=axs[0],vmax=15); axs[0].set_title('LGM')
\* (historical['pr']*86400).plot(ax=axs[1],vmax=15); axs[1].set_title('historical')
\* ((historical['pr']-lgm['pr'])*86400).plot(ax=axs[2]); axs[2].set_title('DELTA')
PaleoPlotPr ==
  /\ PaleoCell(6)
  /\ {"lgm", "historical", "plt", "ccrs"} \subseteq DOMAIN ns
  /\ LET a == Compute(Scale(ns["lgm"].vars["pr"], Num(SecondsPerDay), "86400"))
         b == Compute(Scale(ns["historical"].vars["pr"], Num(SecondsPerDay), "86400"))
         d == Compute(Scale(Minus(ns["historical"].vars["pr"], ns["lgm"].vars["pr"]),
                            Num(SecondsPerDay), "86400")) IN
       /\ evals' = evals \o Stamp(6, a) \o Stamp(6, b) \o Stamp(6, d)
       /\ ns' = Assign(Assign(ns, "fig", Artist("Figure")), "axs", Artist("Axes[3]"))
       /\ outs' = Append(outs, Fig(6, <<Panel(a, "LGM", None, Some(15), "default"),
                                        Panel(b, "historical", None, Some(15), "default"),
                                        Panel(d, "DELTA", None, None, "default")>>))

\* A slip in compare_plot: the colour limits of the field are passed to the
\* difference panel too.
compare_plot_limits_on_delta(field1, field2, vmin, vmax) ==
  <<Panel(Compute(field1), field1.name, vmin, vmax, "default"),
    Panel(Compute(Minus(field1, field2)), "DELTA", vmin, vmax, "seismic")>>

\* def compare_plot(field1, field2, vmin=None, vmax=None): the panels the
\* call draws, on the 2 x 1 axes it makes: field1 with the colour limits
\* under its name, then field1 - field2 in 'seismic' under 'DELTA'.  The
\* three statements drawing field2 are commented out.
compare_plot(field1, field2, vmin, vmax) ==
  <<Panel(Compute(field1), field1.name, vmin, vmax, "default"),
    Panel(Compute(Minus(field1, field2)), "DELTA", None, None, "seismic")>>

\* The computations a call of compare_plot runs, in order.
compare_plot_runs(field1, field2) ==
  Compute(field1).ran \o Compute(Minus(Held(field1), Held(field2))).ran

\* A slip in the order of the cells: the cell defining compare_plot is not
\* run before the cells that call it.
PaleoDefComparePlotSkipped ==
  /\ PaleoCell(7)
  /\ UNCHANGED <<ns, evals, outs>>

\* def compare_plot(...): ...
PaleoDefComparePlot ==
  /\ PaleoCell(7)
  /\ ns' = Assign(ns, "compare_plot", [kind |-> "function", name |-> "compare_plot"])
  /\ UNCHANGED <<evals, outs>>

\* compare_plot(lig['tas'],historical['tas'],vmin=200,vmax=310)
PaleoCompareTas ==
  /\ PaleoCell(8)
  /\ {"compare_plot", "lig", "historical", "plt", "ccrs"} \subseteq DOMAIN ns
  /\ LET field1 == ns["lig"].vars["tas"]
         field2 == ns["historical"].vars["tas"] IN
       /\ evals' = evals \o [i \in 1..Len(compare_plot_runs(field1, field2)) |->
                               [cell |-> 8, expr |-> compare_plot_runs(field1, field2)[i]]]
       /\ outs' = Append(outs, Fig(8, compare_plot(field1, field2, Some(200), Some(310))))
  /\ UNCHANGED ns

\* historical['ua']
PaleoShowUa ==
  /\ PaleoCell(9)
  /\ "historical" \in DOMAIN ns
  /\ UNCHANGED <<ns, evals, outs>>

\* historical.plev
PaleoShowPlev ==
  /\ PaleoCell(10)
  /\ "historical" \in DOMAIN ns
  /\ UNCHANGED <<ns, evals, outs>>

\* compare_plot(lgm['ua'].sel(plev=85000), historical['ua'].sel(plev=85000))
PaleoCompareUa ==
  /\ PaleoCell(11)
  /\ {"compare_plot", "lgm", "historical", "plt", "ccrs"} \subseteq DOMAIN ns
  /\ LET field1 == SelLabel(ns["lgm"].vars["ua"], "plev", 85000, "plev=85000")
         field2 == SelLabel(ns["historical"].vars["ua"], "plev", 85000, "plev=85000") IN
       /\ evals' = evals \o [i \in 1..Len(compare_plot_runs(field1, field2)) |->
                               [cell |-> 11, expr |-> compare_plot_runs(field1, field2)[i]]]
       /\ outs' = Append(outs, Fig(11, compare_plot(field1, field2, None, None)))
  /\ UNCHANGED ns

\* zonal_hist = (historical['ua'].mean(dim='lon')); zonal_lgm = lgm['ua'].mean(dim='lon')
\* fig, ax = plt.subplots(); zonal_hist.squeeze().plot.contourf(levels=15)
\* ax.invert_yaxis()
PaleoZonal ==
  /\ PaleoCell(12)
  /\ {"lgm", "historical", "plt"} \subseteq DOMAIN ns
  /\ LET zonal_hist == Mean(ns["historical"].vars["ua"], {"lon"}, "lon")
         zonal_lgm == Mean(ns["lgm"].vars["ua"], {"lon"}, "lon")
         shown == Compute(Squeeze(zonal_hist)) IN
       /\ evals' = evals \o Stamp(12, shown)
       /\ ns' = Assign(Assign(Assign(Assign(ns, "zonal_hist", Held(zonal_hist)),
                                     "zonal_lgm", Held(zonal_lgm)),
                              "fig", Artist("Figure")), "ax", Artist("Axes"))
       /\ outs' = Append(outs, Fig(12, <<Panel(shown, "", None, None, "default")>>))

\* fig, ax = plt.subplots()
\* (zonal_hist-zonal_lgm).squeeze().plot.contourf(levels=15, cmap='PRGn')
\* ax.invert_yaxis()
PaleoZonalDelta ==
  /\ PaleoCell(13)
  /\ {"zonal_hist", "zonal_lgm", "plt"} \subseteq DOMAIN ns
  /\ LET shown == Compute(Squeeze(Minus(ns["zonal_hist"], ns["zonal_lgm"]))) IN
       /\ evals' = evals \o Stamp(13, shown)
       /\ ns' = Assign(Assign(ns, "fig", Artist("Figure")), "ax", Artist("Axes"))
       /\ outs' = Append(outs, Fig(13, <<Panel(shown, "", None, None, "PRGn")>>))

PaleoNext ==
  \/ PaleoImports \/ PaleoOpenHistorical \/ PaleoOpenLgm \/ PaleoOpenLig
  \/ PaleoPlotPs \/ PaleoPlotPr \/ PaleoDefComparePlot \/ PaleoCompareTas
  \/ PaleoShowUa \/ PaleoShowPlev \/ PaleoCompareUa \/ PaleoZonal \/ PaleoZonalDelta

SpecPaleo == PaleoInit /\ [][PaleoNext]_vars

(***************************************************************************)
(* Claims about the paleoclimate notebook.                                 *)
(***************************************************************************)
\* The figure fig has a panel showing the values of v.
Shows(fig, v) == \E j \in DOMAIN fig.panels : fig.panels[j].shows = Pixels(v)

\* The figure fig has a panel for field1, one for field2 and one for their
\* difference.
TwoFieldsAndDifference(fig, field1, field2) ==
  /\ Shows(fig, field1)
  /\ Shows(fig, field2)
  /\ Shows(fig, Minus(field1, field2))

\* C4: every call of compare_plot renders a panel showing field1, a panel
\* showing field2 and a panel showing the difference of the two.
C4_ComparePlotShowsBothFieldsAndDifference ==
  nb = "paleo" =>
    \A i \in DOMAIN outs :
      /\ outs[i].cell = 8 =>
           TwoFieldsAndDifference(outs[i], ns["lig"].vars["tas"],
                                  ns["historical"].vars["tas"])
      /\ outs[i].cell = 11 =>
           TwoFieldsAndDifference(outs[i],
             SelLabel(ns["lgm"].vars["ua"], "plev", 85000, ""),
             SelLabel(ns["historical"].vars["ua"], "plev", 85000, ""))

\* The mean of a(time, lat, lon) over every grid cell, each cell counted
\* once.
PlainMean(a) ==
  LET Cells(q) == {p \in DOMAIN a.data : p[1] = q[1]}
  IN [q \in Points(<<a.coords[1]>>) |->
        RDiv(RSum(a.data, Cells(q)), Num(Cardinality(Cells(q))))]

\* C17: in the top-to-bottom run the name wrong_mean holds the monthly
\* unweighted mean until the rebinding cell has run and the yearly means of
\* it afterwards; the comparison plot draws the yearly weighted and the
\* yearly unweighted mean of the same field on the same time axis.
C17_ComparisonPlotsYearlyMeans ==
  (nb = "analysis" /\ "wrong_mean" \in DOMAIN ns) =>
    LET tas == ns["data"].vars["tas"]
        held == ns["wrong_mean"]
        yearly == YearlyOf(tas, PlainMean(tas), "Y")
    IN /\ cell <= 9 => (held.coords = <<tas.coords[1]>> /\ held.data = PlainMean(tas))
       /\ cell > 9 => (held.coords # <<tas.coords[1]>> /\ held.data = yearly)
       /\ \A i \in DOMAIN outs :
            outs[i].cell = 13 =>
              LET weighted == outs[i].panels[1].shows
                  unweighted == outs[i].panels[2].shows
              IN /\ unweighted.data = yearly
                 /\ weighted.data = YearlyOf(tas, AreaMean(tas), "Y")
                 /\ weighted.coords = unweighted.coords
                 /\ Len(weighted.coords[1]) = NYears

\* C17 witness: the comparison plot was drawn, and its two series differ.
C17_Witness ==
  /\ nb = "analysis"
  /\ \E i \in DOMAIN outs :
       /\ outs[i].cell = 13
       /\ outs[i].panels[1].title = "weighted"
       /\ outs[i].panels[2].title = "unweighted"
       /\ outs[i].panels[1].shows.data # outs[i].panels[2].shows.data
       /\ ns["wrong_mean"].data = outs[i].panels[2].shows.data

\* C18: in the EC-Earth3 versus ERA5 comparison plot the yearly mean of a
\* calendar year carries the same time label in both series.
C18_SameYearSameLabel ==
  nb = "analysis" =>
    \A i \in DOMAIN outs :
      outs[i].cell = 16 =>
        LET model == outs[i].panels[1].shows.coords[1]
            era5 == outs[i].panels[2].shows.coords[1]
        IN \A j \in DOMAIN model, k \in DOMAIN era5 :
             Year(model[j]) = Year(era5[k]) => model[j] = era5[k]

\* The panels of fig titled 'DELTA'.
DeltaPanels(fig) == {j \in DOMAIN fig.panels : fig.panels[j].title = "DELTA"}

\* The figure of a call compare_plot(field1, field2, vmin, vmax): one DELTA
\* panel, showing field1 - field2 without colour limits, and the limits
\* passed by the caller on every other panel.
DeltaIsFirstMinusSecond(fig, field1, field2, vmin, vmax) ==
  /\ Cardinality(DeltaPanels(fig)) = 1
  /\ \A j \in DOMAIN fig.panels :
       IF j \in DeltaPanels(fig)
       THEN /\ fig.panels[j].shows = Pixels(Minus(field1, field2))
            /\ fig.panels[j].vmin = None
            /\ fig.panels[j].vmax = None
       ELSE /\ fig.panels[j].vmin = vmin
            /\ fig.panels[j].vmax = vmax

\* C16: in every call of compare_plot the DELTA panel shows the first
\* argument minus the second, and vmin/vmax limit the colour range of the
\* field panel only, never that of the difference panel.
C16_DeltaPanelIsUnlimitedDifference ==
  nb = "paleo" =>
    \A i \in DOMAIN outs :
      /\ outs[i].cell = 8 =>
           DeltaIsFirstMinusSecond(outs[i], ns["lig"].vars["tas"],
                                   ns["historical"].vars["tas"], Some(200), Some(310))
      /\ outs[i].cell = 11 =>
           DeltaIsFirstMinusSecond(outs[i],
             SelLabel(ns["lgm"].vars["ua"], "plev", 85000, ""),
             SelLabel(ns["historical"].vars["ua"], "plev", 85000, ""), None, None)

\* C16 witness: both calls of compare_plot ran; the first passed colour
\* limits, and its difference is neither zero everywhere nor the same as
\* the difference taken the other way round.
C16_Witness ==
  /\ nb = "paleo"
  /\ \E i \in DOMAIN outs : outs[i].cell = 11
  /\ \E i \in DOMAIN outs :
       /\ outs[i].cell = 8
       /\ outs[i].panels[1].vmin = Some(200)
       /\ outs[i].panels[2].shows
            # Pixels(Minus(ns["historical"].vars["tas"], ns["lig"].vars["tas"]))

(***************************************************************************)
(* ------------------------  the three notebooks  ------------------------ *)
(***************************************************************************)
\* The names each code cell reads that the cell does not bind itself before
\* reading them, cell by cell (a call of compare_plot reads what its body
\* reads: plt and ccrs).
RadReads ==
  << {}, {"xr"}, {"dataset"}, {"dataset"}, {"dataset"}, {"net_toa"}, {"toa_clim"},
     {"toa_clim"}, {"np", "zonal_toa"}, {"np", "plt", "zonal_toa", "dlon", "dlat"},
     {"np", "net_toa"}, {"xr"}, {"cloud"}, {"dataset"}, {"dataset"}, {"xr"},
     {"net_toa", "ceres"}, {"bias", "area_weights"}, {"xr"},
     {"xr", "heatfluxes", "dataset"} >>
AnReads ==
  << {}, {"xr"}, {"data"}, {"data"}, {"data"}, {"data"}, {"wrong_mean"}, {"wrong_mean"},
     {"data"}, {"data"}, {"data", "np"}, {"data", "area_weights"},
     {"weighted_mean", "wrong_mean", "plt"}, {"xr"}, {"era5", "area_weights"},
     {"weighted_mean", "era5_mean", "plt"}, {"data"}, {"data"}, {"data"},
     {"data", "jan"}, {"data"}, {"climate", "ccrs"}, {"data", "ccrs"} >>
PaleoReads ==
  << {}, {"xr"}, {"xr"}, {"xr"}, {"lgm", "historical", "ccrs"},
     {"lgm", "historical", "plt", "ccrs"}, {},
     {"compare_plot", "lig", "historical", "plt", "ccrs"}, {"historical"}, {"historical"},
     {"compare_plot", "lgm", "historical", "plt", "ccrs"}, {"historical", "lgm", "plt"},
     {"zonal_hist", "zonal_lgm", "plt"} >>
CellReads(n) ==
  CASE n = "radiation" -> RadReads
    [] n = "analysis" -> AnReads
    [] n = "paleo" -> PaleoReads
    [] OTHER -> <<>>

\* Any one of the notebooks, run once from top to bottom in a fresh kernel.
NbInit == RadInit \/ AnInit \/ PaleoInit
NbNext == RadNext \/ AnNext \/ PaleoNext
SpecNotebooks == NbInit /\ [][NbNext]_vars

\* C11: in a top-to-bottom run in a fresh kernel, every name the next cell
\* reads was bound by an earlier cell of the same notebook: the kernel starts
\* with no name bound, and no cell waits for a later cell or another notebook.
C11_CellsReadOnlyEarlierBindings ==
  /\ cell = 1 => ns = <<>>
  /\ cell \in DOMAIN CellReads(nb) => CellReads(nb)[cell] \subseteq DOMAIN ns

\* C11 witness: the data analysis notebook ran to its end, past the cells
\* that use ccrs, imported by the third cell from the end.
C11_Witness ==
  /\ nb = "analysis"
  /\ cell = Len(AnReads) + 1
  /\ "ccrs" \in DOMAIN ns
  /\ \E i \in DOMAIN outs : outs[i].cell = 23

\* The names the notebooks bind to the datasets they open.
DatasetNames ==
  {"data", "era5", "dataset", "cloud", "ceres", "heatfluxes", "historical", "lgm", "lig"}

\* C12: no cell changes a field once it is created: a dataset bound to its
\* name (and so every field of it passed to compare_plot) holds after every
\* later cell the contents it was created with.
C12_FieldsNeverChange ==
  [][\A n \in DatasetNames \cap DOMAIN ns : n \in DOMAIN ns' /\ ns'[n] = ns[n]]_vars

\* C12 witness: the radiation notebook ran to its end: dataset and
\* heatfluxes were merged into radiation, after dataset was used by the
\* cells before.
C12_Witness ==
  /\ nb = "radiation"
  /\ cell = Len(RadReads) + 1
  /\ {"radiation", "dataset", "heatfluxes", "ceres", "cloud"} \subseteq DOMAIN ns
  /\ DOMAIN ns["radiation"].vars = DOMAIN ns["dataset"].vars \cup DOMAIN ns["heatfluxes"].vars

(***************************************************************************)
(* --------------  the heat transport in floating point  ----------------- *)
(* The cell global_transport = (np.cumsum(zonal_toa-zonal_toa.mean()))     *)
(* *dlon*dlat/10**15 of the radiation notebook, with the rounding of       *)
(* every floating-point operation: a float has a significand of MantBits   *)
(* bits (53 for the float64 of numpy) and every operation gives the float  *)
(* nearest to the exact result, ties to the even significand.              *)
(***************************************************************************)
\* Bits of the significand of a float.
MantBits == 6
\* Latitudes of the zonal profile.
ProfileLen == 3
\* Values a zonal mean of the net TOA radiation is drawn from.
ProfileValues == {-3, -2, 1, 2, 3, 4, 5}

RECURSIVE Pow2(_)
Pow2(k) == IF k = 0 THEN 1 ELSE 2 * Pow2(k - 1)

\* The float nearest to n/d, for n > 0 and d > 0.
RECURSIVE RoundPos(_, _)
RoundPos(n, d) ==
  IF n >= d * Pow2(MantBits) THEN RMul(Num(2), RoundPos(n, 2 * d))
  ELSE IF n < d * Pow2(MantBits - 1) THEN RDiv(RoundPos(2 * n, d), Num(2))
  ELSE LET m == n \div d
           r == n % d
       IN Num(IF 2 * r > d \/ (2 * r = d /\ m % 2 = 1) THEN m + 1 ELSE m)

\* The float an operation returns for the exact result x.
Round(x) ==
  IF IsNaN(x) \/ x.n = 0 THEN x
  ELSE IF x.n < 0 THEN RSub(Num(0), RoundPos(-x.n, x.d))
  ELSE RoundPos(x.n, x.d)

\* The running float sum of the first k elements of x (np.cumsum, and the
\* sum inside mean): one rounded addition per element.
RECURSIVE FlSum(_, _)
FlSum(x, k) == IF k = 0 THEN Num(0) ELSE Round(RAdd(FlSum(x, k - 1), x[k]))

\* zonal_toa.mean()
FlMean(x) == Round(RDiv(FlSum(x, Len(x)), Num(Len(x))))
\* A slip: the mean is not removed before the integration.
FlAnomalyMeanKept(x, m) == [j \in DOMAIN x |-> x[j]]
\* The mean is subtracted (zonal_toa - zonal_toa.mean()).
FlAnomaly(x, m) == [j \in DOMAIN x |-> Round(RSub(x[j], m))]
\* np.cumsum(...)
FlCumsum(a) == [k \in DOMAIN a |-> FlSum(a, k)]
\* dlon (the length of the latitude circle, positive at every latitude of
\* the grid) and dlat, as floats, in units of the model.
FlDlon(n) == [j \in 1..n |-> Round(Rat(1 + j * (n + 1 - j), 8))]
FlDlat(n) == Round(Rat(1, n))
\* ... * dlon * dlat / 10**15
FlTransport(c, dlo, dla) == [j \in DOMAIN c |-> Round(RMul(Round(RMul(c[j], dlo[j])), dla))]

\* Whether some operation of the running sum of x rounded its result.
SumRounds(x) == \E k \in DOMAIN x : RAdd(FlSum(x, k - 1), x[k]) # FlSum(x, k)

FlInit ==
  /\ ShellIdle
  /\ nb = "transport"
  /\ cell = 1
  /\ disk = <<>>
  /\ evals = <<>>
  /\ outs = <<>>
  /\ \E profile \in [1..ProfileLen -> ProfileValues] :
       ns = [zonal_toa |-> [j \in 1..ProfileLen |-> Num(profile[j])], rounded |-> FALSE]

FlStep(c) ==
  /\ nb = "transport"
  /\ cell = c
  /\ cell' = c + 1
  /\ UNCHANGED <<nb, disk, evals, outs>>
  /\ UNCHANGED shvars

\* zonal_toa.mean()
FlTakeMean ==
  /\ FlStep(1)
  /\ LET x == ns["zonal_toa"] IN
       ns' = Assign(Assign(ns, "mean", FlMean(x)), "rounded",
                    SumRounds(x) \/ RDiv(FlSum(x, Len(x)), Num(Len(x))) # FlMean(x))

\* zonal_toa - zonal_toa.mean()
FlRemoveMean ==
  /\ FlStep(2)
  /\ LET x == ns["zonal_toa"]
         a == FlAnomaly(x, ns["mean"]) IN
       ns' = Assign(Assign(ns, "anomaly", a), "rounded",
                    ns["rounded"] \/ \E j \in DOMAIN x : RSub(x[j], ns["mean"]) # a[j])

\* np.cumsum(...)
FlIntegrate ==
  /\ FlStep(3)
  /\ LET a == ns["anomaly"] IN
       ns' = Assign(Assign(ns, "cumsum", FlCumsum(a)), "rounded",
                    ns["rounded"] \/ SumRounds(a))

\* global_transport = ... * dlon * dlat / 10**15
FlScale ==
  /\ FlStep(4)
  /\ LET c == ns["cumsum"] IN
       ns' = Assign(ns, "global_transport", FlTransport(c, FlDlon(Len(c)), FlDlat(Len(c))))

FlNext == FlTakeMean \/ FlRemoveMean \/ FlIntegrate \/ FlScale

SpecTransportFloat == FlInit /\ [][FlNext]_vars

\* The size of a float, and the largest size in a sequence of floats.
RAbs(x) == IF x.n < 0 THEN RSub(Num(0), x) ELSE x
RLeq(x, y) == RSub(y, x).n >= 0
MaxAbs(x) == CHOOSE m \in {RAbs(x[j]) : j \in DOMAIN x} :
               \A j \in DOMAIN x : RLeq(RAbs(x[j]), m)

\* C14 as stated: for every zonal profile the last element of the
\* cumulative sum of the mean-removed profile is zero, and so is
\* global_transport at the final latitude.
C14_TransportClosesExactly ==
  (nb = "transport" /\ "global_transport" \in DOMAIN ns) =>
    /\ ns["cumsum"][ProfileLen] = Num(0)
    /\ ns["global_transport"][ProfileLen] = Num(0)

\* C14 amended: the integral closes up to rounding.  The last element of
\* the cumulative sum is zero when no operation rounded its result; in
\* general its size is at most 3 n^2 2^-p max|zonal_toa| (n latitudes, p
\* bits of significand), and global_transport at the final latitude is zero
\* exactly when it is.
C14_TransportClosesUpToRounding ==
  (nb = "transport" /\ "global_transport" \in DOMAIN ns) =>
    LET last == ns["cumsum"][ProfileLen]
        bound == RMul(Rat(3 * ProfileLen * ProfileLen, Pow2(MantBits)),
                      MaxAbs(ns["zonal_toa"]))
    IN /\ ~ns["rounded"] => last = Num(0)
       /\ RLeq(RAbs(last), bound)
       /\ ns["global_transport"][ProfileLen] = Num(0) <=> last = Num(0)

\* C14 witness: a profile whose mean is no float: the operations rounded,
\* and the transport at the final latitude is not zero, within the bound.
C14_Witness ==
  /\ nb = "transport"
  /\ "global_transport" \in DOMAIN ns
  /\ ns["rounded"]
  /\ ns["global_transport"][ProfileLen] # Num(0)
  /\ ns["zonal_toa"] = <<Num(1), Num(2), Num(4)>>
====
